---------------------------- MODULE Spec2Model ----------------------------
(***************************************************************************)
(* Procedural map generation of the roguelike (src/roguelike/mapgen):      *)
(* the terrain grid and its accessors, the shared finishing steps          *)
(* (add_border_walls, create_entities, place_stairs_and_player), and the   *)
(* generators that run before them.                                        *)
(*                                                                         *)
(* A cell is the pair <<x, y>>; terrain_grid is the list of rows of the    *)
(* source, terrain_grid[y][x], with TLA+'s indices from 1: the tile of     *)
(* cell <<x, y>> is terrain_grid[y + 1][x + 1].  An entity of the level is *)
(* the triple <<kind, x, y>>, in the order of creation.                    *)
(***************************************************************************)
EXTENDS Integers, Sequences, FiniteSets, TLC

(***************************************************************************)
(* Bounds of the explored inputs.                                          *)
(***************************************************************************)
\* map size of the grids on which the finishing steps are explored
PlaceWidth == 4
PlaceHeight == 4
\* map size of the cave grids on which ensure_connectivity is explored
CaveWidth == 5
CaveHeight == 5
\* map size of the rooms-and-corridors levels
RoomsWidth == 15
RoomsHeight == 13
\* map size of the rooms-and-corridors levels too small for the largest room
SmallRoomsWidth == 8
SmallRoomsHeight == 8
\* map size of the BSP levels
BspWidth == 26
BspHeight == 10
\* map size of the BSP levels whose root is narrower than min_size
NarrowBspWidth == 7
NarrowBspHeight == 18
\* the longest list of which random.choice is explored in full
MaxChoice == 9
\* map size of the grids on which the tile accessors and flood_fill are explored
TilesWidth == 3
TilesHeight == 2
\* map size of the grids on which carve_corridor is explored, and the
\* widest corridor
CorridorGridWidth == 4
CorridorGridHeight == 6
MaxCorridorWidth == 3
\* the longest list of rooms given to build_minimum_spanning_tree and the
\* largest x of a room of such a list
MaxExtraRooms == 7
MaxWideRooms == 3
CaWidth == 4
CaHeight == 3
StreamWidth == 4
StreamHeight == 3
MaxWidened == 1
MaxMstRooms == 4
MaxLevels == 2
LevelWidth == 2
LevelHeight == 1
MaxLevelEntities == 2
MstSpan == 1
\* map size of the forest levels
ForestWidth == 30
ForestHeight == 30
\* map size of the village levels
VillageWidth == 34
VillageHeight == 22
\* the longest list of buildings explored in the building loop
MaxBuildings == 1

VARIABLES
  width, height,        \* MapGenerator.width / .height
  terrain_grid,         \* MapGenerator.terrain_grid
  entities,             \* Level.entities
  pc,                   \* position in the generate_* call
  error,                \* the exception that ended the call, or "none"
  player_x, player_y,   \* preferred player position (argument)
  has_upstairs, has_downstairs, create_player,   \* arguments
  reserved,             \* place_stairs_and_player's reserved set
  num_regions,          \* ensure_connectivity: len(regions)
  environment,          \* which generate_* function is called
  algorithm,            \* generate_dungeon's algorithm argument
  rooms,                \* RoomsCorridorsGenerator.rooms / BSPGenerator.rooms
  num_rooms_target, attempts,   \* generate_dungeon's room loop
  root,                 \* BSPGenerator.root
  num_iterations,       \* generate_dungeon: the ca_iteration calls still to run
  square_size,          \* generate_village: square_size
  call,                 \* the method called on its own: <<name, arguments ...>>
  returned,             \* the value that call returned
  grid_before,          \* terrain_grid when that call was made
  levels,               \* World.levels
  active_level_index,   \* World.active_level_index
  transition_request    \* World.transition_request: "up", "down" or "None"

\* the World object
world == <<levels, active_level_index, transition_request>>
\* the arguments of the generate_* call
generate_arguments == <<width, height, player_x, player_y,
                        has_upstairs, has_downstairs, create_player, environment,
                        algorithm>>
\* the arguments and the world, which no generator is handed
arguments == <<generate_arguments, world>>
\* what no step of a generate_* call changes
params == <<arguments, call, returned, grid_before>>
\* the generators' own state
locals == <<num_regions, rooms, num_rooms_target, attempts, root, num_iterations,
            square_size>>
vars == <<params, terrain_grid, entities, pc, error, reserved, locals>>

\* World.__init__
NewWorld == levels = <<>> /\ active_level_index = 0 /\ transition_request = "None"

(***************************************************************************)
(* Terrain grid (src/roguelike/mapgen/base.py)                             *)
(***************************************************************************)
Cells(w, h) == (0 .. w - 1) \X (0 .. h - 1)

InBounds(x, y) == 0 <= x /\ x < width /\ 0 <= y /\ y < height

\* MapGenerator.__init__: every cell starts as "floor"
NewGrid(w, h) == [j \in 1 .. h |-> [i \in 1 .. w |-> "floor"]]

\* a set_tile whose test lost its lower bounds: a negative index of a list
\* counts from the list's end
set_tile_negative_index(g, x, y, tile_type) ==
  IF -width <= x /\ x < width /\ -height <= y /\ y < height
  THEN [g EXCEPT ![((y + height) % height) + 1][((x + width) % width) + 1] = tile_type]
  ELSE g

set_tile(g, x, y, tile_type) ==
  IF InBounds(x, y) THEN [g EXCEPT ![y + 1][x + 1] = tile_type] ELSE g

get_tile(g, x, y) ==
  IF InBounds(x, y) THEN g[y + 1][x + 1] ELSE "wall"

is_blocked(g, x, y) == get_tile(g, x, y) \in {"wall", "water", "trees"}

\* the writes of a loop applied in the loop's order: ws is a sequence of
\* <<x, y, tile_type>>; a cell ends with the tile of the last write to it,
\* a write out of bounds changes no cell
SetTiles(g, ws) ==
  [j \in 1 .. height |-> [i \in 1 .. width |->
     LET hits == {k \in 1 .. Len(ws) : ws[k][1] = i - 1 /\ ws[k][2] = j - 1}
     IN  IF hits = {} THEN g[j][i]
         ELSE ws[CHOOSE k \in hits : \A m \in hits : m <= k][3]]]

\* range(lo, hi) as a sequence
Range(lo, hi) == [k \in 1 .. (IF hi > lo THEN hi - lo ELSE 0) |-> lo + k - 1]

SeqToSet(s) == {s[k] : k \in 1 .. Len(s)}

Min(a, b) == IF a < b THEN a ELSE b
Max(a, b) == IF a > b THEN a ELSE b
Abs(a) == IF a < 0 THEN -a ELSE a

\* abs(x1 - x2) + abs(y1 - y2)
Manhattan(p, q) == Abs(p[1] - q[1]) + Abs(p[2] - q[2])

\* add_border_walls: the two loops, each writing two cells per index
BorderWrites ==
  LET xs == Range(0, width)
      ys == Range(0, height)
      row == [k \in 1 .. 2 * Len(xs) |->
                IF k % 2 = 1 THEN <<xs[(k + 1) \div 2], 0, "wall">>
                ELSE <<xs[k \div 2], height - 1, "wall">>]
      col == [k \in 1 .. 2 * Len(ys) |->
                IF k % 2 = 1 THEN <<0, ys[(k + 1) \div 2], "wall">>
                ELSE <<width - 1, ys[k \div 2], "wall">>]
  IN  row \o col

\* border walls whose second loop, over the two columns, is missing
add_border_walls_rows_only(g) ==
  SetTiles(g, SubSeq(BorderWrites, 1, 2 * width))

add_border_walls(g) == SetTiles(g, BorderWrites)

\* the cells of range(y0, y1) x range(x0, x1) in the order
\* "for y ...: for x ...:" as a sequence of <<x, y>>
ScanOrder(x0, x1, y0, y1) ==
  LET nx == IF x1 > x0 THEN x1 - x0 ELSE 0
      ny == IF y1 > y0 THEN y1 - y0 ELSE 0
  IN  [k \in 1 .. nx * ny |-> <<x0 + ((k - 1) % nx), y0 + ((k - 1) \div nx)>>]

\* a bake that hands the cell's coordinates over in the order (y, x)
create_entities_transposed(ents, g) ==
  LET cs == ScanOrder(0, width, 0, height)
  IN  ents \o [k \in 1 .. Len(cs) |-> <<g[cs[k][2] + 1][cs[k][1] + 1], cs[k][2], cs[k][1]>>]

\* create_entities: one level.create_entity per cell, row by row
create_entities(ents, g) ==
  LET cs == ScanOrder(0, width, 0, height)
  IN  ents \o [k \in 1 .. Len(cs) |-> <<g[cs[k][2] + 1][cs[k][1] + 1], cs[k][1], cs[k][2]>>]

\* flood_fill's while loop: the stack is a sequence whose last element is
\* popped; a popped cell that is visited, blocked or out of bounds is
\* dropped, any other is visited and its four neighbours are pushed
RECURSIVE FloodLoop(_, _, _)
FloodLoop(g, stack, visited) ==
  IF stack = <<>> THEN visited
  ELSE LET p == stack[Len(stack)]
           rest == SubSeq(stack, 1, Len(stack) - 1)
       IN  IF p \in visited THEN FloodLoop(g, rest, visited)
           ELSE IF is_blocked(g, p[1], p[2]) THEN FloodLoop(g, rest, visited)
           ELSE IF ~InBounds(p[1], p[2]) THEN FloodLoop(g, rest, visited)
           ELSE LET v == visited \cup {p}
                    nb == << <<p[1] - 1, p[2]>>, <<p[1] + 1, p[2]>>,
                             <<p[1], p[2] - 1>>, <<p[1], p[2] + 1>> >>
                IN  FloodLoop(g, rest \o SelectSeq(nb, LAMBDA n : n \notin v), v)

\* a flood fill that takes its start cell as visited without testing it
flood_fill_start_unchecked(g, start_x, start_y) ==
  FloodLoop(g, << <<start_x - 1, start_y>>, <<start_x + 1, start_y>>,
                  <<start_x, start_y - 1>>, <<start_x, start_y + 1>> >>,
            {<<start_x, start_y>>})

flood_fill(g, start_x, start_y) == FloodLoop(g, << <<start_x, start_y>> >>, {})

\* a span that stops one short: range(min(a, b), max(a, b))
Span_exclusive(a, b) == Range(Min(a, b), Max(a, b))

\* range(min(a, b), max(a, b) + 1)
Span(a, b) == Range(Min(a, b), Max(a, b) + 1)

\* one leg of a corridor: for i in span: for w in range(width): a write at
\* the cell At(i, w)
LegAlongX(xs, y, cw) ==
  [k \in 1 .. Len(xs) * cw |-> <<xs[1 + (k - 1) \div cw], y + ((k - 1) % cw), "floor">>]
\* a vertical leg that widens towards -x
LegAlongY_widened_left(ys, x, cw) ==
  [k \in 1 .. Len(ys) * cw |-> <<x - ((k - 1) % cw), ys[1 + (k - 1) \div cw], "floor">>]
LegAlongY(ys, x, cw) ==
  [k \in 1 .. Len(ys) * cw |-> <<x + ((k - 1) % cw), ys[1 + (k - 1) \div cw], "floor">>]

\* a corridor whose second leg starts from the wrong end
carve_corridor_wrong_corner(g, x1, y1, x2, y2, cw, horizontal_first) ==
  IF horizontal_first
  THEN SetTiles(g, LegAlongX(Span(x1, x2), y1, cw) \o LegAlongY(Span(y1, y2), x1, cw))
  ELSE SetTiles(g, LegAlongY(Span(y1, y2), x1, cw) \o LegAlongX(Span(x1, x2), y1, cw))

\* carve_corridor; horizontal_first is the outcome of random.random() < 0.5
carve_corridor(g, x1, y1, x2, y2, cw, horizontal_first) ==
  IF horizontal_first
  THEN SetTiles(g, LegAlongX(Span(x1, x2), y1, cw) \o LegAlongY(Span(y1, y2), x2, cw))
  ELSE SetTiles(g, LegAlongY(Span(y1, y2), x1, cw) \o LegAlongX(Span(x1, x2), y2, cw))

\* finishing steps in which the grid is baked before its border is walled
step_after_bake_first(step) ==
  IF step = "generated" THEN "bake"
  ELSE IF step = "bake" THEN "border"
  ELSE IF step = "border" THEN "place"
  ELSE "done"

\* the end of every generate_* function: once the map is generated,
\* gen.add_border_walls() ("border"), gen.create_entities() ("bake"),
\* place_stairs_and_player(...) ("place"), return ("done")
step_after(step) ==
  IF step = "generated" THEN "border"
  ELSE IF step = "border" THEN "bake"
  ELSE IF step = "bake" THEN "place"
  ELSE "done"

(***************************************************************************)
(* CellularAutomataGenerator.ensure_connectivity                           *)
(* (src/roguelike/mapgen/dungeon.py)                                       *)
(***************************************************************************)
\* the loop "for pos in floor_positions: if pos not in visited_global: ..."
RECURSIVE FindRegions(_, _, _, _)
FindRegions(g, floor_positions, visited_global, found) ==
  IF floor_positions = <<>> THEN found
  ELSE LET pos == floor_positions[1]
       IN  IF pos \in visited_global
           THEN FindRegions(g, Tail(floor_positions), visited_global, found)
           ELSE LET region == flood_fill(g, pos[1], pos[2])
                IN  FindRegions(g, Tail(floor_positions),
                                visited_global \cup region, Append(found, region))

\* regions.sort(key=len, reverse=True): stable, regions of equal size keep
\* the order in which they were found
RECURSIVE SortLargestFirst(_)
SortLargestFirst(rs) ==
  IF rs = <<>> THEN <<>>
  ELSE LET n == Len(rs)
           r == rs[n]
           rest == SortLargestFirst(SubSeq(rs, 1, n - 1))
           k == Cardinality({i \in 1 .. Len(rest) :
                               Cardinality(rest[i]) >= Cardinality(r)})
       IN  SubSeq(rest, 1, k) \o <<r>> \o SubSeq(rest, k + 1, Len(rest))

\* best_pair of the double loop over two sets: a pair at the least
\* distance; which of several such pairs comes first is the iteration
\* order of the sets, so each of them can be the result
ClosestPairs(region, main_region) ==
  LET pairs == region \X main_region
      best_dist == CHOOSE d \in {Manhattan(pr[1], pr[2]) : pr \in pairs} :
                     \A pr \in pairs : d <= Manhattan(pr[1], pr[2])
  IN  {pr \in pairs : Manhattan(pr[1], pr[2]) = best_dist}

\* "for region in regions[1:]": the grids the loop can end with
RECURSIVE ConnectRegions(_, _, _)
ConnectRegions(g, rest, main_region) ==
  IF rest = <<>> THEN {g}
  ELSE UNION {ConnectRegions(
                 carve_corridor(g, bp[1][1], bp[1][2], bp[2][1], bp[2][2], 2, hf),
                 Tail(rest), main_region) :
              bp \in ClosestPairs(rest[1], main_region), hf \in BOOLEAN}

FloorPositions(g) ==
  SelectSeq(ScanOrder(0, width, 0, height), LAMBDA p : ~is_blocked(g, p[1], p[2]))

\* the regions list as ensure_connectivity leaves it
RegionsOf(g) ==
  LET found == FindRegions(g, FloorPositions(g), {}, <<>>)
  IN  IF Len(found) <= 1 THEN found ELSE SortLargestFirst(found)

\* gen.ensure_connectivity() as a step of generate_dungeon
EnsureConnectivity ==
  /\ pc = "connect"
  /\ LET rs == RegionsOf(terrain_grid)
     IN  /\ num_regions' = Len(rs)
         /\ IF Len(rs) <= 1
            THEN terrain_grid' = terrain_grid
            ELSE terrain_grid' \in ConnectRegions(terrain_grid, Tail(rs), rs[1])
  /\ pc' = step_after("generated")
  /\ UNCHANGED <<params, entities, error, reserved,
                 rooms, num_rooms_target, attempts, root, num_iterations, square_size>>

(***************************************************************************)
(* place_stairs_and_player (src/roguelike/mapgen/base.py)                  *)
(***************************************************************************)
\* a list of valid positions that lost its "if not is_blocked" filter
valid_positions_unfiltered(g) == ScanOrder(1, width - 1, 1, height - 1)

\* [(x, y) for y in range(1, height-1) for x in range(1, width-1)
\*         if not is_blocked(x, y)]
valid_positions(g) ==
  SelectSeq(ScanOrder(1, width - 1, 1, height - 1),
            LAMBDA p : ~is_blocked(g, p[1], p[2]))

\* random.choice(seq): every element can be drawn; of a list longer than
\* MaxChoice the first, the middle and the last element are explored
random_choice(s) ==
  IF Len(s) <= MaxChoice THEN SeqToSet(s)
  ELSE {s[1], s[(Len(s) + 1) \div 2], s[Len(s)]}

\* the index in s of the first cell at the least distance from up
FirstNearest(s, up) ==
  LET keys == {Manhattan(s[k], up) : k \in 1 .. Len(s)}
      best == CHOOSE d \in keys : \A e \in keys : d <= e
  IN  CHOOSE k \in 1 .. Len(s) :
        /\ Manhattan(s[k], up) = best
        /\ \A i \in 1 .. k - 1 : Manhattan(s[i], up) # best

RECURSIVE NthNearest(_, _, _)
NthNearest(s, up, n) ==
  LET k == FirstNearest(s, up)
  IN  IF n = 1 THEN s[k]
      ELSE NthNearest(SubSeq(s, 1, k - 1) \o SubSeq(s, k + 1, Len(s)), up, n - 1)

\* a sort whose key lost its minus sign: nearest first
SortNearestFirst(s, up) == [n \in 1 .. Len(s) |-> NthNearest(s, up, n)]

\* the index in s of the first cell at the largest distance from up
FirstFarthest(s, up) ==
  LET keys == {Manhattan(s[k], up) : k \in 1 .. Len(s)}
      best == CHOOSE d \in keys : \A e \in keys : e <= d
  IN  CHOOSE k \in 1 .. Len(s) :
        /\ Manhattan(s[k], up) = best
        /\ \A i \in 1 .. k - 1 : Manhattan(s[i], up) # best

\* the n-th cell of the sorted list: the first of the farthest cells once
\* the n - 1 cells sorted before it are taken out
RECURSIVE NthFarthest(_, _, _)
NthFarthest(s, up, n) ==
  LET k == FirstFarthest(s, up)
  IN  IF n = 1 THEN s[k]
      ELSE NthFarthest(SubSeq(s, 1, k - 1) \o SubSeq(s, k + 1, Len(s)), up, n - 1)

\* down_candidates.sort(key=lambda p: -(|p.x - up_x| + |p.y - up_y|)):
\* list.sort is stable, so cells at the same distance keep their order
SortFarthestFirst(s, up) == [n \in 1 .. Len(s) |-> NthFarthest(s, up, n)]

\* a downstairs branch that draws at random when no upstairs was placed
DownChoicesRandom(valid, res) ==
  LET down_candidates == SelectSeq(valid, LAMBDA p : p \notin res)
  IN  IF down_candidates # <<>>
      THEN IF res # {}
           THEN {SortFarthestFirst(down_candidates, CHOOSE u \in res : TRUE)[1]}
           ELSE random_choice(down_candidates)
      ELSE random_choice(valid)

\* the cells the downstairs branch can end on, given the reserved set
\* left by the upstairs branch
DownChoices(valid, res) ==
  LET down_candidates == SelectSeq(valid, LAMBDA p : p \notin res)
  IN  IF down_candidates # <<>>
      THEN IF res # {}
           THEN \* list(reserved)[0]: reserved holds the upstairs cell only
                {SortFarthestFirst(down_candidates, CHOOSE u \in res : TRUE)[1]}
           ELSE {down_candidates[1]}
      ELSE random_choice(valid)

\* a player branch that takes the preferred cell without looking at reserved
PlayerChoicesIgnoreReserved(g, valid, res) ==
  IF ~is_blocked(g, player_x, player_y)
  THEN {<<player_x, player_y>>}
  ELSE LET player_candidates == SelectSeq(valid, LAMBDA p : p \notin res)
       IN  IF player_candidates # <<>>
           THEN random_choice(player_candidates)
           ELSE random_choice(valid)

\* a player branch whose fallback draws among all valid cells at once
PlayerChoicesAnyValid(g, valid, res) ==
  IF ~is_blocked(g, player_x, player_y) /\ <<player_x, player_y>> \notin res
  THEN {<<player_x, player_y>>}
  ELSE random_choice(valid)

\* the cells the player branch can end on
PlayerChoices(g, valid, res) ==
  IF ~is_blocked(g, player_x, player_y) /\ <<player_x, player_y>> \notin res
  THEN {<<player_x, player_y>>}
  ELSE LET player_candidates == SelectSeq(valid, LAMBDA p : p \notin res)
       IN  IF player_candidates # <<>>
           THEN random_choice(player_candidates)
           ELSE random_choice(valid)

NoPos == <<>>

Created(kind, p) == IF p = NoPos THEN <<>> ELSE << <<kind, p[1], p[2]>> >>
Reserve(res, p) == IF p = NoPos THEN res ELSE res \cup {p}

\* the whole call: the ValueError when no cell is valid, else the three
\* optional placements in the order upstairs, downstairs, player
place_stairs_and_player ==
  /\ pc = "place"
  /\ LET valid == valid_positions(terrain_grid)
     IN  IF valid = <<>>
         THEN /\ pc' = "error"
              /\ error' = "no_valid_floor"
              /\ UNCHANGED <<entities, reserved>>
         ELSE \E up_pos \in (IF has_upstairs THEN random_choice(valid) ELSE {NoPos}) :
                LET res1 == Reserve({}, up_pos)
                IN  \E down_pos \in (IF has_downstairs THEN DownChoices(valid, res1)
                                     ELSE {NoPos}) :
                      LET res2 == Reserve(res1, down_pos)
                      IN  \E player_pos \in (IF create_player
                                             THEN PlayerChoices(terrain_grid, valid, res2)
                                             ELSE {NoPos}) :
                            /\ entities' = entities \o Created("upstairs", up_pos)
                                             \o Created("downstairs", down_pos)
                                             \o Created("player", player_pos)
                            /\ reserved' = Reserve(res2, player_pos)
                            /\ pc' = step_after("place")
                            /\ error' = error
  /\ UNCHANGED <<params, terrain_grid, locals>>

\* gen.add_border_walls() as a step of generate_*
AddBorderWalls ==
  /\ pc = "border"
  /\ terrain_grid' = add_border_walls(terrain_grid)
  /\ pc' = step_after("border")
  /\ UNCHANGED <<params, entities, error, reserved, locals>>

\* gen.create_entities() as a step of generate_*
CreateEntities ==
  /\ pc = "bake"
  /\ entities' = create_entities(entities, terrain_grid)
  /\ pc' = step_after("bake")
  /\ UNCHANGED <<params, terrain_grid, error, reserved, locals>>

(***************************************************************************)
(* The finishing steps on every small grid a generator can hand over:      *)
(* the border ring is wall (add_border_walls has run), each interior cell  *)
(* is blocking or not.                                                     *)
(***************************************************************************)
Interior(w, h) == (1 .. w - 2) \X (1 .. h - 2)

WalledGrids(w, h, tiles) ==
  {[j \in 1 .. h |-> [i \in 1 .. w |->
      IF <<i - 1, j - 1>> \in Interior(w, h) THEN f[<<i - 1, j - 1>>] ELSE "wall"]] :
     f \in [Interior(w, h) -> tiles]}

\* the grid of the documented example: valid cells (1,1), (2,2), (5,5)
ExampleGrid ==
  [j \in 1 .. 7 |-> [i \in 1 .. 7 |->
     IF <<i - 1, j - 1>> \in {<<1, 1>>, <<2, 2>>, <<5, 5>>} THEN "floor" ELSE "wall"]]

PlaceInputs ==
  {<<PlaceWidth, PlaceHeight, g>> :
      g \in WalledGrids(PlaceWidth, PlaceHeight, {"floor", "wall"})}
  \cup {<<7, 7, ExampleGrid>>}

InitPlace ==
  /\ \E i \in PlaceInputs :
       /\ width = i[1] /\ height = i[2] /\ terrain_grid = i[3]
       /\ \E p \in {<<1, 1>>, <<i[1] - 2, i[2] - 2>>, <<0, 0>>, <<i[1], 1>>} :
            player_x = p[1] /\ player_y = p[2]
  /\ has_upstairs \in BOOLEAN
  /\ has_downstairs \in BOOLEAN
  /\ create_player \in BOOLEAN
  /\ entities = <<>>
  /\ reserved = {}
  /\ NewWorld
  /\ pc = "bake"
  /\ error = "none"
  /\ num_regions = 0
  /\ environment = "dungeon" /\ algorithm = "cellular"
  /\ rooms = <<>> /\ num_rooms_target = 0 /\ attempts = 0
  /\ root = <<>>
  /\ num_iterations = 0
  /\ square_size = 0
  /\ call = <<>> /\ returned = <<>> /\ grid_before = <<>>

NextPlace == CreateEntities \/ place_stairs_and_player

SpecPlace == InitPlace /\ [][NextPlace]_vars

(***************************************************************************)
(* Properties of place_stairs_and_player                                   *)
(***************************************************************************)
Special == {"upstairs", "downstairs", "player"}

\* the cells on which an entity of the given kind was created
PosOf(kind) ==
  {<<entities[i][2], entities[i][3]>> :
     i \in {j \in 1 .. Len(entities) : entities[j][1] = kind}}

Blocking == {"wall", "water", "trees"}

\* the strictly interior non-blocked cells of the current grid
\* the tile of an in-bounds cell of the current grid
TileAt(c) == terrain_grid[c[2] + 1][c[1] + 1]

ValidCells ==
  {c \in (1 .. width - 2) \X (1 .. height - 2) : TileAt(c) \notin Blocking}

\* c comes no later than d in the scan "for y: for x:"
ScanLeq(c, d) == c[2] < d[2] \/ (c[2] = d[2] /\ c[1] <= d[1])

FirstValid == CHOOSE c \in ValidCells : \A d \in ValidCells : ScanLeq(c, d)

AllThree == pc = "done" /\ has_upstairs /\ has_downstairs /\ create_player

ThreeDistinctValid ==
  \E u \in ValidCells, d \in ValidCells, p \in ValidCells :
     /\ PosOf("upstairs") = {u}
     /\ PosOf("downstairs") = {d}
     /\ PosOf("player") = {p}
     /\ u # d /\ u # p /\ d # p

C6_Farthest ==
  (pc = "done" /\ has_upstairs /\ has_downstairs) =>
    \A u \in PosOf("upstairs") :
      (ValidCells \ {u} # {}) =>
        \E d \in ValidCells \ {u} :
          /\ PosOf("downstairs") = {d}
          /\ \A q \in ValidCells \ {u} :
               /\ Manhattan(q, u) <= Manhattan(d, u)
               /\ Manhattan(q, u) = Manhattan(d, u) => ScanLeq(d, q)
          /\ (terrain_grid = ExampleGrid /\ u = <<1, 1>>) => d = <<5, 5>>

\* two cells tie at the largest distance from the upstairs cell
C6_Witness ==
  /\ pc = "done" /\ has_upstairs /\ has_downstairs
  /\ \E u \in PosOf("upstairs") :
       \E q \in ValidCells \ {u}, r \in ValidCells \ {u} :
          /\ q # r
          /\ Manhattan(q, u) = Manhattan(r, u)
          /\ \A t \in ValidCells : Manhattan(t, u) <= Manhattan(q, u)

NoUpButDown == pc = "done" /\ ~has_upstairs /\ has_downstairs

\* C7 as stated: without upstairs, every valid cell is a cell the
\* downstairs branch can draw
C7_AnyValidCell ==
  NoUpButDown => DownChoices(valid_positions(terrain_grid), {}) = ValidCells

\* C7 amended: without upstairs, downstairs is on the first valid cell in
\* scan order (increasing y, then increasing x), a cell fixed by the grid
C7_FirstValid == NoUpButDown => PosOf("downstairs") = {FirstValid}

C7_Witness == NoUpButDown /\ Cardinality(ValidCells) >= 2

PreferredFree ==
  /\ InBounds(player_x, player_y)
  /\ TileAt(<<player_x, player_y>>) \notin Blocking
  /\ <<player_x, player_y>> \notin PosOf("upstairs") \cup PosOf("downstairs")

Unreserved == ValidCells \ (PosOf("upstairs") \cup PosOf("downstairs"))

PlayerFallback ==
  \E p \in ValidCells :
     /\ PosOf("player") = {p}
     /\ Unreserved # {} => p \in Unreserved

\* C8 as stated: the player is at the preferred cell exactly when that cell
\* is not blocked and not reserved by a stair; otherwise on an unreserved
\* valid cell if there is one, else on a valid cell
C8_ExactlyWhen ==
  (pc = "done" /\ create_player) =>
     /\ PosOf("player") = {<<player_x, player_y>>} <=> PreferredFree
     /\ ~PreferredFree => PlayerFallback

\* C8 amended: the player is at the preferred cell whenever that cell is
\* not blocked and not reserved by a stair; otherwise on an unreserved
\* valid cell if there is one, else on a valid cell; it is at a preferred
\* cell that is blocked or reserved only when every valid cell is reserved
C8_Preferred ==
  (pc = "done" /\ create_player) =>
     /\ PreferredFree => PosOf("player") = {<<player_x, player_y>>}
     /\ ~PreferredFree => PlayerFallback
     /\ (PosOf("player") = {<<player_x, player_y>>} /\ ~PreferredFree)
          => Unreserved = {}

\* the preferred cell is taken by a stair and another valid cell is free
C8_Witness ==
  /\ pc = "done" /\ create_player
  /\ <<player_x, player_y>> \in PosOf("upstairs") \cup PosOf("downstairs")
  /\ Unreserved # {}

NoSpecialEntity == \A i \in 1 .. Len(entities) : entities[i][1] \notin Special

\* C9: on a grid without a strictly interior non-blocked cell the call ends
\* with the no-valid-floor error and has created no upstairs, downstairs or
\* player entity, whatever the three flags
C9_NoValidFloor ==
  /\ (pc \in {"done", "error"} /\ ValidCells = {}) =>
        (pc = "error" /\ error = "no_valid_floor")
  /\ (pc = "error" /\ error = "no_valid_floor") =>
        (ValidCells = {} /\ NoSpecialEntity /\ reserved = {})

C9_Witness ==
  /\ pc = "error" /\ error = "no_valid_floor"
  /\ has_upstairs /\ has_downstairs /\ create_player

(***************************************************************************)
(* ensure_connectivity and add_border_walls on every cave grid: border     *)
(* ring wall, interior cells wall or floor, at least one floor cell.       *)
(***************************************************************************)
InitCave ==
  /\ width = CaveWidth /\ height = CaveHeight
  /\ terrain_grid \in {g \in WalledGrids(CaveWidth, CaveHeight, {"floor", "wall"}) :
                         \E j \in 1 .. CaveHeight : \E i \in 1 .. CaveWidth :
                            g[j][i] = "floor"}
  /\ player_x = 1 /\ player_y = 1
  /\ has_upstairs = FALSE /\ has_downstairs = FALSE /\ create_player = FALSE
  /\ entities = <<>>
  /\ reserved = {}
  /\ NewWorld
  /\ num_regions = 0
  /\ environment = "dungeon" /\ algorithm = "cellular"
  /\ rooms = <<>> /\ num_rooms_target = 0 /\ attempts = 0
  /\ root = <<>>
  /\ num_iterations = 0
  /\ square_size = 0
  /\ call = <<>> /\ returned = <<>> /\ grid_before = <<>>
  /\ pc = "connect"
  /\ error = "none"

NextCave == EnsureConnectivity \/ AddBorderWalls

SpecCave == InitCave /\ [][NextCave]_vars

(***************************************************************************)
(* Connectivity of the non-blocked cells                                   *)
(***************************************************************************)
OpenCells == {c \in Cells(width, height) : TileAt(c) \notin Blocking}

Neighbours(c) ==
  {<<c[1] - 1, c[2]>>, <<c[1] + 1, c[2]>>, <<c[1], c[2] - 1>>, <<c[1], c[2] + 1>>}

\* the cells of S reachable from the frontier by 4-directional steps in S
RECURSIVE Grow(_, _, _)
Grow(S, seen, frontier) ==
  IF frontier = {} THEN seen
  ELSE LET next == ((UNION {Neighbours(c) : c \in frontier}) \cap S) \ seen
       IN  Grow(S, seen \cup next, next)

\* the non-blocked cells form exactly one 4-connected component
OneComponent ==
  /\ OpenCells # {}
  /\ LET c0 == CHOOSE c \in OpenCells : TRUE
     IN  Grow(OpenCells, {c0}, {c0}) = OpenCells

\* C3: on every cave grid, after ensure_connectivity and add_border_walls
\* the non-blocked cells form exactly one 4-connected component, whatever
\* leg order each corridor took; so every smaller region is joined to the
\* largest
C3_CaveConnected ==
  (pc = "bake") =>
     OneComponent

\* two regions besides the largest had to be joined
C3_Witness == pc = "bake" /\ num_regions >= 3

(***************************************************************************)
(* Rooms and corridors (src/roguelike/mapgen/dungeon.py)                   *)
(***************************************************************************)
\* random.randint(a, b): the two ends of the range are explored; the empty
\* set stands for the ValueError of an empty range
randint(a, b) == IF a > b THEN {} ELSE {a, b}

Room(x, y, w, h) == [x |-> x, y |-> y, width |-> w, height |-> h]

\* Room.center
center(room) == <<room.x + room.width \div 2, room.y + room.height \div 2>>

\* an intersection test that compares the corners without the sizes
intersects_ignoring_size(self, other, buffer) ==
  ~(\/ self.x + buffer <= other.x
    \/ other.x + buffer <= self.x
    \/ self.y + buffer <= other.y
    \/ other.y + buffer <= self.y)

\* Room.intersects
intersects(self, other, buffer) ==
  ~(\/ self.x + self.width + buffer <= other.x
    \/ other.x + other.width + buffer <= self.x
    \/ self.y + self.height + buffer <= other.y
    \/ other.y + other.height + buffer <= self.y)

\* "for y in range(height): for x in range(width): gen.set_tile(x, y, "wall")"
FillWalls(g) == [j \in 1 .. height |-> [i \in 1 .. width |-> "wall"]]

\* a create_room that leaves the outer cells of the room as they are
create_room_inner_only(g, room) ==
  [j \in 1 .. height |-> [i \in 1 .. width |->
     IF /\ room.x < i - 1 /\ i - 1 < room.x + room.width - 1
        /\ room.y < j - 1 /\ j - 1 < room.y + room.height - 1
     THEN "floor" ELSE g[j][i]]]

\* create_room, and the same loop of create_rooms_in_leaves
create_room(g, room) ==
  [j \in 1 .. height |-> [i \in 1 .. width |->
     IF /\ room.x <= i - 1 /\ i - 1 < room.x + room.width
        /\ room.y <= j - 1 /\ j - 1 < room.y + room.height
     THEN "floor" ELSE g[j][i]]]

\* a pass that keeps the farthest pair: "dist > best_dist" from 0
BestPairs_farthest(rs, connected) ==
  LET out == {j \in 1 .. Len(rs) : j \notin connected}
      dist(i, j) == Manhattan(center(rs[i]), center(rs[j]))
      best_dist == CHOOSE d \in {dist(i, j) : i \in connected, j \in out} :
                     \A i \in connected, j \in out : d >= dist(i, j)
  IN  {<<i, CHOOSE j \in out : /\ dist(i, j) = best_dist
                              /\ \A k \in out : dist(i, k) = best_dist => j <= k>> :
         i \in {i \in connected : \E j \in out : dist(i, j) = best_dist}}

\* one pass of Prim's loop: the pairs best_pair can end as.  j runs over
\* range(len(rooms)) in order; i runs over a set, in an order the language
\* does not fix, so the first closest pair of each i is a possible result
BestPairs(rs, connected) ==
  LET out == {j \in 1 .. Len(rs) : j \notin connected}
      dist(i, j) == Manhattan(center(rs[i]), center(rs[j]))
      best_dist == CHOOSE d \in {dist(i, j) : i \in connected, j \in out} :
                     \A i \in connected, j \in out : d <= dist(i, j)
  IN  {<<i, CHOOSE j \in out : /\ dist(i, j) = best_dist
                              /\ \A k \in out : dist(i, k) = best_dist => j <= k>> :
         i \in {i \in connected : \E j \in out : dist(i, j) = best_dist}}

\* "while len(connected) < len(self.rooms)": the lists of connections the
\* loop can end with; rooms are numbered from 1 here, from 0 in the source
RECURSIVE Prim(_, _, _)
Prim(rs, connected, connections) ==
  IF Cardinality(connected) >= Len(rs) THEN {connections}
  ELSE UNION {Prim(rs, connected \cup {bp[2]}, Append(connections, bp)) :
                bp \in BestPairs(rs, connected)}

\* a guard that also turns two rooms away: "if len(self.rooms) <= 2"
build_minimum_spanning_tree_two_rooms_unconnected(rs) ==
  IF Len(rs) <= 2 THEN {<<>>} ELSE Prim(rs, {1}, <<>>)

build_minimum_spanning_tree(rs) ==
  IF Len(rs) < 2 THEN {<<>>} ELSE Prim(rs, {1}, <<>>)

\* connect_rooms for each pair of a list, each with either leg order: the
\* grids the loop can end with
RECURSIVE ConnectAll(_, _, _)
ConnectAll(g, rs, pairs) ==
  IF pairs = <<>> THEN {g}
  ELSE LET c1 == center(rs[pairs[1][1]])
           c2 == center(rs[pairs[1][2]])
       IN  UNION {ConnectAll(carve_corridor(g, c1[1], c1[2], c2[1], c2[2], 1, hf),
                             rs, Tail(pairs)) : hf \in BOOLEAN}

\* "for _ in range(num_extra)": i and j drawn, connected when they differ
RECURSIVE ExtraConnections(_, _, _)
ExtraConnections(g, rs, num_extra) ==
  IF num_extra = 0 THEN {g}
  ELSE UNION {IF i # j
              THEN UNION {ExtraConnections(g2, rs, num_extra - 1) :
                            g2 \in ConnectAll(g, rs, << <<i + 1, j + 1>> >>)}
              ELSE ExtraConnections(g, rs, num_extra - 1) :
              i \in randint(0, Len(rs) - 1), j \in randint(0, Len(rs) - 1)}

\* "num_extra = max(1, len(connections) // 5)" rounded up instead of down
num_extra_ceiling(connections) == Max(1, (Len(connections) + 4) \div 5)

\* num_extra = max(1, len(connections) // 5)
num_extra(connections) == Max(1, Len(connections) \div 5)

\* one iteration of "while len(gen.rooms) < num_rooms_target and attempts <
\* max_attempts": try_place_room(4, 12), attempts += 1
try_place_room ==
  /\ pc = "rooms"
  /\ Len(rooms) < num_rooms_target /\ attempts < num_rooms_target * 3
  /\ \E w \in randint(4, 12), h \in randint(4, 12 - 2) :
       IF randint(1, width - w - 2) = {} \/ randint(1, height - h - 2) = {}
       THEN /\ pc' = "error" /\ error' = "empty_range"
            /\ UNCHANGED <<terrain_grid, rooms, attempts>>
       ELSE \E x \in randint(1, width - w - 2), y \in randint(1, height - h - 2) :
              LET new_room == Room(x, y, w, h)
              IN  /\ IF \E k \in 1 .. Len(rooms) : intersects(new_room, rooms[k], 1)
                     THEN UNCHANGED <<terrain_grid, rooms>>
                     ELSE /\ terrain_grid' = create_room(terrain_grid, new_room)
                          /\ rooms' = Append(rooms, new_room)
                  /\ attempts' = attempts + 1
                  /\ UNCHANGED <<pc, error>>
  /\ UNCHANGED <<params, entities, reserved, num_regions, num_rooms_target, root,
                 num_iterations, square_size>>

\* after the loop: the corridors of the spanning tree, then the extra ones
ConnectRooms ==
  /\ pc = "rooms"
  /\ ~(Len(rooms) < num_rooms_target /\ attempts < num_rooms_target * 3)
  /\ IF Len(rooms) >= 2
     THEN \E connections \in build_minimum_spanning_tree(rooms) :
            \E g \in ConnectAll(terrain_grid, rooms, connections) :
               terrain_grid' \in ExtraConnections(g, rooms, num_extra(connections))
     ELSE terrain_grid' = terrain_grid
  /\ pc' = step_after("generated")
  /\ UNCHANGED <<params, entities, error, reserved, locals>>

(***************************************************************************)
(* Binary space partition (src/roguelike/mapgen/dungeon.py)                *)
(* None is the empty sequence, an object the one-element sequence of it.   *)
(***************************************************************************)
BSPNode(x, y, w, h) ==
  [x |-> x, y |-> y, width |-> w, height |-> h,
   left |-> <<>>, right |-> <<>>, room |-> <<>>]

\* split_node(node, min_size = 8): the pairs <<left, right>> it can set;
\* no pair when it returns False.  The dimension that is split is at least
\* 2 * min_size, so the range of split_pos has its two ends
split_node(node, min_size) ==
  IF node.width < min_size * 2 /\ node.height < min_size * 2 THEN {}
  ELSE UNION {
         IF split_horizontal
         THEN {<<BSPNode(node.x, node.y, node.width, split_pos),
                 BSPNode(node.x, node.y + split_pos, node.width, node.height - split_pos)>> :
                 split_pos \in randint(min_size, node.height - min_size)}
         ELSE {<<BSPNode(node.x, node.y, split_pos, node.height),
                 BSPNode(node.x + split_pos, node.y, node.width - split_pos, node.height)>> :
                 split_pos \in randint(min_size, node.width - min_size)} :
         split_horizontal \in (IF node.width < min_size * 2 THEN {TRUE}
                               ELSE IF node.height < min_size * 2 THEN {FALSE}
                               ELSE BOOLEAN)}

\* split_tree(node, depth, max_depth): the trees it can leave
RECURSIVE split_tree(_, _, _)
split_tree(node, depth, max_depth) ==
  IF depth >= max_depth THEN {node}
  ELSE LET halves == split_node(node, 8)
       IN  IF halves = {} THEN {node}
           ELSE UNION {{[node EXCEPT !.left = <<l>>, !.right = <<r>>] :
                          l \in split_tree(lr[1], depth + 1, max_depth),
                          r \in split_tree(lr[2], depth + 1, max_depth)} :
                       lr \in halves}

\* int(n * 0.6) and int(n * 0.9) of a size n
SixTenths(n) == (n * 6) \div 10
NineTenths(n) == (n * 9) \div 10

\* create_rooms_in_leaves(node): the results <<node, rooms, grid>> of the
\* call on a tree, given the rooms and the grid before it
RECURSIVE create_rooms_in_leaves(_, _, _)
create_rooms_in_leaves(node, rs, g) ==
  IF node.left # <<>> \/ node.right # <<>>
  THEN UNION {{<<[node EXCEPT !.left = <<a[1]>>, !.right = <<b[1]>>], b[2], b[3]>> :
                 b \in create_rooms_in_leaves(node.right[1], a[2], a[3])} :
              a \in create_rooms_in_leaves(node.left[1], rs, g)}
  ELSE {LET room == Room(node.x + (node.width - room_width) \div 2,
                         node.y + (node.height - room_height) \div 2,
                         room_width, room_height)
        IN  <<[node EXCEPT !.room = <<room>>], Append(rs, room), create_room(g, room)>> :
        room_width \in randint(SixTenths(node.width), NineTenths(node.width)),
        room_height \in randint(SixTenths(node.height), NineTenths(node.height))}

\* get_room_from_tree: <<room>>, or <<>> for None
RECURSIVE get_room_from_tree(_)
get_room_from_tree(node) ==
  IF node.room # <<>> THEN node.room
  ELSE LET left_room == IF node.left # <<>> THEN get_room_from_tree(node.left[1]) ELSE <<>>
       IN  IF left_room # <<>> THEN left_room
           ELSE IF node.right # <<>> THEN get_room_from_tree(node.right[1])
           ELSE <<>>

\* the corridor of one node of connect_siblings
SiblingCorridors(g, node) ==
  LET left_room == get_room_from_tree(node.left[1])
      right_room == get_room_from_tree(node.right[1])
  IN  IF left_room # <<>> /\ right_room # <<>>
      THEN LET c1 == center(left_room[1])
               c2 == center(right_room[1])
           IN  {carve_corridor(g, c1[1], c1[2], c2[1], c2[2], cw, hf) :
                  cw \in randint(1, 2), hf \in BOOLEAN}
      ELSE {g}

\* a connect_siblings that does not recurse into the two subtrees
connect_siblings_root_only(g, node) ==
  IF node.left # <<>> /\ node.right # <<>> THEN SiblingCorridors(g, node) ELSE {g}

\* connect_siblings(node): the grids it can leave
RECURSIVE connect_siblings(_, _)
connect_siblings(g, node) ==
  IF node.left # <<>> /\ node.right # <<>>
  THEN UNION {UNION {connect_siblings(g2, node.right[1]) :
                       g2 \in connect_siblings(g1, node.left[1])} :
              g1 \in SiblingCorridors(g, node)}
  ELSE {g}

\* gen.split_tree(gen.root, depth=0, max_depth=4)
SplitTree ==
  /\ pc = "split"
  /\ root' \in {<<t>> : t \in split_tree(root[1], 0, 4)}
  /\ pc' = "leaves"
  /\ UNCHANGED <<params, terrain_grid, entities, error, reserved,
                 num_regions, rooms, num_rooms_target, attempts, num_iterations, square_size>>

\* gen.create_rooms_in_leaves(gen.root)
CreateRoomsInLeaves ==
  /\ pc = "leaves"
  /\ \E r \in create_rooms_in_leaves(root[1], rooms, terrain_grid) :
       /\ root' = <<r[1]>>
       /\ rooms' = r[2]
       /\ terrain_grid' = r[3]
  /\ pc' = "siblings"
  /\ UNCHANGED <<params, entities, error, reserved,
                 num_regions, num_rooms_target, attempts, num_iterations, square_size>>

\* gen.connect_siblings(gen.root)
ConnectSiblings ==
  /\ pc = "siblings"
  /\ terrain_grid' \in connect_siblings(terrain_grid, root[1])
  /\ pc' = step_after("generated")
  /\ UNCHANGED <<params, entities, error, reserved, locals>>

(***************************************************************************)
(* Cellular automata (src/roguelike/mapgen/dungeon.py)                     *)
(***************************************************************************)
\* initialize_random: each strictly interior cell is set to wall or floor
initialize_random(g) ==
  {[j \in 1 .. height |-> [i \in 1 .. width |->
      IF <<i - 1, j - 1>> \in Interior(width, height) THEN f[<<i - 1, j - 1>>]
      ELSE g[j][i]]] :
     f \in [Interior(width, height) -> {"wall", "floor"}]}

\* the number of walls in the 3x3 block around (x, y), read with get_tile
wall_count(g, x, y) ==
  Cardinality({d \in {-1, 0, 1} \X {-1, 0, 1} : get_tile(g, x + d[1], y + d[2]) = "wall"})

\* the loop of ca_iteration writing into the grid it counts in
RECURSIVE CountAndWrite(_, _)
CountAndWrite(g, cells) ==
  IF cells = <<>> THEN g
  ELSE LET x == cells[1][1]
           y == cells[1][2]
           tile == IF wall_count(g, x, y) >= 5 THEN "wall" ELSE "floor"
       IN  CountAndWrite(set_tile(g, x, y, tile), Tail(cells))

\* an iteration without new_grid: the cells are overwritten one by one
ca_iteration_in_place(g) == CountAndWrite(g, ScanOrder(1, width - 1, 1, height - 1))

\* ca_iteration: new_grid is a copy; every strictly interior cell is
\* written from the counts in the old grid
ca_iteration(g) ==
  [j \in 1 .. height |-> [i \in 1 .. width |->
     IF <<i - 1, j - 1>> \in Interior(width, height)
     THEN IF wall_count(g, i - 1, j - 1) >= 5 THEN "wall" ELSE "floor"
     ELSE g[j][i]]]

\* gen.initialize_random(wall_probability=0.45), and the draw of
\* num_iterations
InitializeRandom ==
  /\ pc = "ca_init"
  /\ terrain_grid' \in initialize_random(terrain_grid)
  /\ num_iterations' \in randint(4, 5)
  /\ pc' = "ca_iterate"
  /\ UNCHANGED <<params, entities, error, reserved,
                 num_regions, rooms, num_rooms_target, attempts, root, square_size>>

\* one pass of "for _ in range(num_iterations): gen.ca_iteration()"
CaIteration ==
  /\ pc = "ca_iterate"
  /\ terrain_grid' = ca_iteration(terrain_grid)
  /\ num_iterations' = num_iterations - 1
  /\ pc' = IF num_iterations = 1 THEN "connect" ELSE "ca_iterate"
  /\ UNCHANGED <<params, entities, error, reserved,
                 num_regions, rooms, num_rooms_target, attempts, root, square_size>>

(***************************************************************************)
(* generate_dungeon (src/roguelike/mapgen/dungeon.py)                      *)
(***************************************************************************)
\* a dispatch whose last branch falls back to rooms and corridors
FirstStepDefaultRooms(alg) ==
  IF alg = "rooms_corridors" THEN "rooms"
  ELSE IF alg = "cellular" THEN "ca_init"
  ELSE IF alg = "bsp" THEN "split"
  ELSE "rooms"

\* the if / elif / else over the algorithm name
FirstStep(alg) ==
  IF alg = "rooms_corridors" THEN "rooms"
  ELSE IF alg = "cellular" THEN "ca_init"
  ELSE IF alg = "bsp" THEN "split"
  ELSE "error"

\* the head of each branch: the generator and its grid filled with walls,
\* or the ValueError of the last branch
generate_dungeon ==
  /\ pc = "start" /\ environment = "dungeon"
  /\ LET step == FirstStep(algorithm)
     IN  /\ pc' = step
         /\ error' = IF step = "error" THEN "unknown_algorithm" ELSE error
         /\ terrain_grid' = IF step = "error" THEN terrain_grid
                            ELSE FillWalls(NewGrid(width, height))
         /\ num_rooms_target' \in (IF step = "rooms" THEN randint(15, 25)
                                   ELSE {num_rooms_target})
         /\ root' = IF step = "split" THEN <<BSPNode(1, 1, width - 2, height - 2)>>
                    ELSE root
  /\ UNCHANGED <<params, entities, reserved, num_regions, rooms, attempts,
                 num_iterations, square_size>>

(***************************************************************************)
(* Forest (src/roguelike/mapgen/forest.py)                                 *)
(***************************************************************************)
\* the cells of S set to tile_type, every other cell as in g
Paint(g, S, tile_type) ==
  [j \in 1 .. height |-> [i \in 1 .. width |->
     IF <<i - 1, j - 1>> \in S THEN tile_type ELSE g[j][i]]]

\* "for _ in range(iterations)" of generate_tree_cluster when every draw
\* "random.random() < 0.6" succeeds (expand), or when none does
RECURSIVE GrowTrees(_, _, _)
GrowTrees(trees, iterations, expand) ==
  IF iterations = 0 THEN trees
  ELSE LET new_trees ==
             {n \in UNION {{<<t[1] + dx, t[2] + dy>> : dx \in {-1, 0, 1}, dy \in {-1, 0, 1}} :
                             t \in trees} :
                /\ n \notin trees /\ expand
                /\ 1 <= n[1] /\ n[1] < width - 1 /\ 1 <= n[2] /\ n[2] < height - 1}
       IN  GrowTrees(trees \cup new_trees, iterations - 1, expand)

\* generate_tree_cluster: the cells that end as trees; with density "all"
\* every draw "random.random() < 0.7" succeeds, with "not_seed" every one
\* but the seed's
TreeCells(seed_x, seed_y, iterations, expand, density) ==
  LET trees == GrowTrees({<<seed_x, seed_y>>}, iterations, expand)
  IN  IF density = "all" THEN trees ELSE trees \ {<<seed_x, seed_y>>}

\* the draws of one pass of the cluster loop that are explored:
\* <<seed_x, seed_y, iterations, expand, density>>
ClusterDraws ==
  {<<5, 5, 3, TRUE, "not_seed">>,
   <<5, 5, 3, TRUE, "all">>,
   <<width - 5, height - 5, 6, TRUE, "all">>,
   <<width - 5, height - 5, 6, FALSE, "all">>}

\* generate_pond: the cells that end as water.  dist <= radius + variation
\* with variation = -0.5 in every cell (small) or as close to 0.5 as the
\* draw gets (large); dist is the root of an integer, so the tests are
\* 4 * dist^2 <= (2 * radius - 1)^2 and 4 * dist^2 < (2 * radius + 1)^2
PondCells(center_x, center_y, radius, large) ==
  {c \in (center_x - radius .. center_x + radius) \X (center_y - radius .. center_y + radius) :
     /\ LET d2 == (c[1] - center_x) * (c[1] - center_x) + (c[2] - center_y) * (c[2] - center_y)
        IN  IF large THEN 4 * d2 < (2 * radius + 1) * (2 * radius + 1)
            ELSE 4 * d2 <= (2 * radius - 1) * (2 * radius - 1)
     /\ 1 <= c[1] /\ c[1] < width - 1 /\ 1 <= c[2] /\ c[2] < height - 1}

\* the explored draws of one pass of the pond loop
PondDraws ==
  {<<10, 10, 2, FALSE>>, <<width - 10, height - 10, 4, TRUE>>}

Sign(a) == IF a > 0 THEN 1 ELSE IF a < 0 THEN -1 ELSE 0

\* generate_stream's walk when every draw "random.random() < 0.7" succeeds,
\* so every step is towards the target, and the draw between the two axes
\* always gives the x axis (x_first) or always the y axis
RECURSIVE StreamWalk(_, _, _, _, _, _)
StreamWalk(x, y, end_x, end_y, x_first, positions) ==
  IF <<x, y>> = <<end_x, end_y>> \/ Len(positions) >= width * 2 THEN positions
  ELSE LET dx == Sign(end_x - x)
           dy == Sign(end_y - y)
           mx == IF dx # 0 /\ (dy = 0 \/ x_first) THEN x + dx ELSE x
           my == IF dy # 0 /\ (dx = 0 \/ ~x_first) THEN y + dy ELSE y
           nx == Max(1, Min(mx, width - 2))
           ny == Max(1, Min(my, height - 2))
           ps == Append(positions, <<nx, ny>>)
       IN  IF Abs(nx - end_x) <= 1 /\ Abs(ny - end_y) <= 1 THEN ps
           ELSE StreamWalk(nx, ny, end_x, end_y, x_first, ps)

\* generate_stream: the walk, then the drawing; with widen every position
\* is widened to its four neighbours, without it none is
generate_stream(g, start_x, start_y, end_x, end_y, x_first, widen) ==
  LET positions == StreamWalk(start_x, start_y, end_x, end_y, x_first,
                              << <<start_x, start_y>> >>)
      cells == SeqToSet(positions)
      wide == IF widen THEN UNION {Neighbours(c) : c \in cells} ELSE {}
  IN  Paint(g, {c \in cells \cup wide : InBounds(c[1], c[2])}, "water")

\* "x = max(1, min(x, self.width - 2))" left out
stream_step_unclamped(x, y, end_x, end_y) ==
  LET dx == Sign(end_x - x)
      dy == Sign(end_y - y)
  IN  {<<x + dx, y>>, <<x, y + dy>>} \cup {<<x + a, y + b>> : a, b \in {-1, 0, 1}}

\* one pass of the walk's loop: the positions it can append.  Towards the
\* target (one of the two axes when both differ), or a random step of -1, 0
\* or 1 on each axis; then "Keep in bounds"
stream_step(x, y, end_x, end_y) ==
  LET dx == Sign(end_x - x)
      dy == Sign(end_y - y)
      towards == IF dx # 0 /\ dy # 0 THEN {<<x + dx, y>>, <<x, y + dy>>}
                 ELSE {<<x + dx, y + dy>>}
      anywhere == {<<x + a, y + b>> : a, b \in {-1, 0, 1}}
  IN  {<<Max(1, Min(p[1], width - 2)), Max(1, Min(p[2], height - 2))>> :
         p \in towards \cup anywhere}

\* "for dx, dy in [(1, 0), (0, 1), (-1, 0), (0, -1)]"
Directions == {<<1, 0>>, <<0, 1>>, <<-1, 0>>, <<0, -1>>}

\* the draws of the drawing loop: wide[k] is the set of directions whose
\* draw "random.random() < 0.5" succeeds at the k-th position, empty when
\* the draw "random.random() < 0.3" fails; at most MaxWidened positions are
\* widened
WideDraws(positions) ==
  UNION {{[k \in 1 .. Len(positions) |-> IF k \in W THEN f[k] ELSE {}] :
            f \in [W -> SUBSET Directions \ {{}}]} :
         W \in {V \in SUBSET (1 .. Len(positions)) : Cardinality(V) <= MaxWidened}}

\* "Draw stream": set_tile(sx, sy, "water") for every position and
\* set_tile(sx + dx, sy + dy, "water") for every direction drawn there
draw_stream(g, positions, wide) ==
  LET cells == SeqToSet(positions) \cup
               UNION {{<<positions[k][1] + d[1], positions[k][2] + d[2]>> : d \in wide[k]} :
                        k \in 1 .. Len(positions)}
  IN  Paint(g, {c \in cells : InBounds(c[1], c[2])}, "water")

\* the explored streams: <<start_x, start_y, end_x, end_y, x_first, widen>>,
\* a horizontal one and a vertical one
StreamDraws ==
  {<<1, height \div 4, width - 2, (3 * height) \div 4, TRUE, FALSE>>,
   <<width \div 4, 1, (3 * width) \div 4, height - 2, FALSE, TRUE>>}

\* create_clearing: the cells it looks at
ClearingCells(center_x, center_y, radius) ==
  {c \in (center_x - radius .. center_x + radius) \X (center_y - radius .. center_y + radius) :
     /\ (c[1] - center_x) * (c[1] - center_x) + (c[2] - center_y) * (c[2] - center_y)
          <= radius * radius
     /\ 1 <= c[1] /\ c[1] < width - 1 /\ 1 <= c[2] /\ c[2] < height - 1}

create_clearing(g, center_x, center_y, radius) ==
  Paint(g, {c \in ClearingCells(center_x, center_y, radius) :
              g[c[2] + 1][c[1] + 1] # "water"}, "floor")

\* the explored draws of one pass of the clearing loop
ClearingDraws ==
  {<<15, 15, 5>>, <<width - 15, height - 15, 8>>}

\* add_grass_patches when every draw succeeds
add_grass_patches(g) ==
  Paint(g, {c \in Interior(width, height) : g[c[2] + 1][c[1] + 1] = "floor"}, "grass")

\* step 1: the cluster loop; every pass writes trees only, so the grid
\* after the loop is fixed by the set of draws that occurred
TreeClusters ==
  /\ pc = "start" /\ environment = "forest"
  /\ IF randint(5, width - 5) = {} \/ randint(5, height - 5) = {}
     THEN /\ pc' = "error" /\ error' = "empty_range"
          /\ UNCHANGED terrain_grid
     ELSE /\ \E num_clusters \in randint(8, 15) :
               \E ds \in SUBSET ClusterDraws :
                  /\ ds # {} /\ Cardinality(ds) <= num_clusters
                  /\ terrain_grid' =
                       Paint(terrain_grid,
                             UNION {TreeCells(d[1], d[2], d[3], d[4], d[5]) : d \in ds},
                             "trees")
          /\ pc' = "ponds"
          /\ UNCHANGED error
  /\ UNCHANGED <<params, entities, reserved, locals>>

\* step 2: the pond loop
Ponds ==
  /\ pc = "ponds"
  /\ IF randint(10, width - 10) = {} \/ randint(10, height - 10) = {}
     THEN /\ pc' = "error" /\ error' = "empty_range"
          /\ UNCHANGED terrain_grid
     ELSE /\ \E num_ponds \in randint(2, 4) :
               \E ds \in SUBSET PondDraws :
                  /\ ds # {} /\ Cardinality(ds) <= num_ponds
                  /\ terrain_grid' =
                       Paint(terrain_grid,
                             UNION {PondCells(d[1], d[2], d[3], d[4]) : d \in ds},
                             "water")
          /\ pc' = "stream"
          /\ UNCHANGED error
  /\ UNCHANGED <<params, entities, reserved, locals>>

\* step 3: no stream, or one of the explored streams
Stream ==
  /\ pc = "stream"
  /\ \/ terrain_grid' = terrain_grid
     \/ \E d \in StreamDraws :
          terrain_grid' = generate_stream(terrain_grid, d[1], d[2], d[3], d[4], d[5], d[6])
  /\ pc' = "clearings"
  /\ UNCHANGED <<params, entities, error, reserved, locals>>

\* step 4: the clearing loop; a pass turns non-water cells into floor and
\* no pass writes water, so the passes commute
RECURSIVE Clearings(_, _)
Clearings(g, ds) ==
  IF ds = {} THEN g
  ELSE LET d == CHOOSE e \in ds : TRUE
       IN  Clearings(create_clearing(g, d[1], d[2], d[3]), ds \ {d})

CreateClearings ==
  /\ pc = "clearings"
  /\ IF randint(15, width - 15) = {} \/ randint(15, height - 15) = {}
     THEN /\ pc' = "error" /\ error' = "empty_range"
          /\ UNCHANGED terrain_grid
     ELSE /\ \E num_clearings \in randint(2, 3) :
               \E ds \in SUBSET ClearingDraws :
                  /\ ds # {} /\ Cardinality(ds) <= num_clearings
                  /\ terrain_grid' = Clearings(terrain_grid, ds)
          /\ pc' = "grass"
          /\ UNCHANGED error
  /\ UNCHANGED <<params, entities, reserved, locals>>

\* step 5: no draw of add_grass_patches succeeds, or every one does
GrassPatches ==
  /\ pc = "grass"
  /\ terrain_grid' \in {terrain_grid, add_grass_patches(terrain_grid)}
  /\ pc' = step_after("generated")
  /\ UNCHANGED <<params, entities, error, reserved, locals>>

(***************************************************************************)
(* Village (src/roguelike/mapgen/village.py)                               *)
(***************************************************************************)
\* create_road: the cells it sets to dirt
RoadCells(x1, y1, x2, y2, road_width, vertical) ==
  IF vertical
  THEN {c \in (x1 .. x1 + road_width - 1) \X (Min(y1, y2) .. Max(y1, y2)) :
          InBounds(c[1], c[2])}
  ELSE {c \in (Min(x1, x2) .. Max(x1, x2)) \X (y1 .. y1 + road_width - 1) :
          InBounds(c[1], c[2])}

create_road(g, x1, y1, x2, y2, road_width, vertical) ==
  Paint(g, RoadCells(x1, y1, x2, y2, road_width, vertical), "dirt")

\* steps 1 and 2: the main road through the centre, then the cross roads;
\* every road writes dirt only, so the grid after the loop is fixed by the
\* set of positions drawn
CreateRoads ==
  /\ pc = "start" /\ environment = "village"
  /\ \E main_road_horizontal \in BOOLEAN :
       \E num_cross_roads \in randint(2, 3) :
          IF main_road_horizontal
          THEN \E xs \in SUBSET randint(width \div 4, (3 * width) \div 4) :
                 /\ xs # {} /\ Cardinality(xs) <= num_cross_roads
                 /\ terrain_grid' =
                      Paint(create_road(terrain_grid, 1, height \div 2, width - 2,
                                        height \div 2, 3, FALSE),
                            UNION {RoadCells(road_x, 1, road_x, height - 2, 2, TRUE) :
                                     road_x \in xs},
                            "dirt")
          ELSE \E ys \in SUBSET randint(height \div 4, (3 * height) \div 4) :
                 /\ ys # {} /\ Cardinality(ys) <= num_cross_roads
                 /\ terrain_grid' =
                      Paint(create_road(terrain_grid, width \div 2, 1, width \div 2,
                                        height - 2, 3, TRUE),
                            UNION {RoadCells(1, road_y, width - 2, road_y, 2, FALSE) :
                                     road_y \in ys},
                            "dirt")
  /\ pc' = "square"
  /\ UNCHANGED <<params, entities, error, reserved, locals>>

\* the cells of the town square
SquareCells(size) ==
  LET sx == (width - size) \div 2
      sy == (height - size) \div 2
  IN  (sx .. sx + size - 1) \X (sy .. sy + size - 1)

\* step 3: the strictly interior cells of the square that are not dirt
\* become floor
TownSquare ==
  /\ pc = "square"
  /\ \E size \in randint(12, 18) :
       /\ square_size' = size
       /\ terrain_grid' =
            Paint(terrain_grid,
                  {c \in SquareCells(size) :
                     /\ 1 <= c[1] /\ c[1] < width - 1 /\ 1 <= c[2] /\ c[2] < height - 1
                     /\ get_tile(terrain_grid, c[1], c[2]) # "dirt"},
                  "floor")
  /\ pc' = "buildings"
  /\ UNCHANGED <<params, entities, error, reserved,
                 num_regions, rooms, num_rooms_target, attempts, root, num_iterations>>

\* the door cell of create_building, or no cell
DoorCell(x, y, bw, bh, door_side) ==
  IF door_side = "none" \/ ~(bw > 2 /\ bh > 2) THEN {}
  ELSE IF door_side = "top" THEN {<<x + bw \div 2, y>>}
  ELSE IF door_side = "bottom" THEN {<<x + bw \div 2, y + bh - 1>>}
  ELSE IF door_side = "left" THEN {<<x, y + bh \div 2>>}
  ELSE {<<x + bw - 1, y + bh \div 2>>}

\* create_building: perimeter wall, floor inside, then the door; door_side
\* is "none" when the 80% draw fails
create_building(g, x, y, bw, bh, door_side) ==
  [j \in 1 .. height |-> [i \in 1 .. width |->
     IF x <= i - 1 /\ i - 1 < x + bw /\ y <= j - 1 /\ j - 1 < y + bh
     THEN IF <<i - 1, j - 1>> \in DoorCell(x, y, bw, bh, door_side) THEN "floor"
          ELSE IF i - 1 \in {x, x + bw - 1} \/ j - 1 \in {y, y + bh - 1} THEN "wall"
          ELSE "floor"
     ELSE g[j][i]]]

\* a check that looks at the square and the bounds but not at the roads
clear_roads_unchecked(g, x, y, bw, bh, size) ==
  \A c \in (x - 1 .. x + bw) \X (y - 1 .. y + bh) :
     /\ InBounds(c[1], c[2])
     /\ c \notin SquareCells(size)

\* the check of one pass of the building loop: every cell of the footprint
\* and its 1-cell margin is in bounds, not dirt and not in the square
clear(g, x, y, bw, bh, size) ==
  \A c \in (x - 1 .. x + bw) \X (y - 1 .. y + bh) :
     /\ InBounds(c[1], c[2])
     /\ get_tile(g, c[1], c[2]) # "dirt"
     /\ c \notin SquareCells(size)

\* the draws <<x, y, width, height, door_side>> of one pass that are
\* explored: no door, or a door in the first or the last of the four sides
BuildingDraws ==
  UNION {{<<bx, by, bw, bh, door_side>> :
            bx \in randint(5, width - bw - 5), by \in randint(5, height - bh - 5),
            door_side \in {"none", "top", "right"}} :
         bw \in randint(5, 12), bh \in randint(5, 10)}

\* the buildings of a list created in its order
RECURSIVE Build(_, _)
Build(g, bs) ==
  IF bs = <<>> THEN g
  ELSE Build(create_building(g, bs[1][1], bs[1][2], bs[1][3], bs[1][4], bs[1][5]), Tail(bs))

\* step 4: the building loop; a building changes neither dirt nor the
\* square, so the passes that are clear do not depend on the buildings
\* placed before: the loop creates some list of clear draws, of which the
\* lists of at most MaxBuildings are explored
PlaceBuildings ==
  /\ pc = "buildings"
  /\ IF \E bw \in randint(5, 12), bh \in randint(5, 10) :
          randint(5, width - bw - 5) = {} \/ randint(5, height - bh - 5) = {}
     THEN /\ pc' = "error" /\ error' = "empty_range"
          /\ UNCHANGED terrain_grid
     ELSE /\ LET ok == {d \in BuildingDraws :
                          clear(terrain_grid, d[1], d[2], d[3], d[4], square_size)}
             IN  \E n \in 0 .. MaxBuildings :
                   \E bs \in [1 .. n -> ok] : terrain_grid' = Build(terrain_grid, bs)
          /\ pc' = "vegetation"
          /\ UNCHANGED error
  /\ UNCHANGED <<params, entities, reserved, locals>>

\* the first cell in scan order that add_vegetation finds as floor
FirstFloor(g) ==
  LET fs == {c \in Interior(width, height) : g[c[2] + 1][c[1] + 1] = "floor"}
  IN  IF fs = {} THEN {} ELSE {CHOOSE c \in fs : \A d \in fs : ScanLeq(c, d)}

\* add_vegetation with the draws explored: "none" no draw succeeds;
\* "grass" no tree draw and every grass draw succeeds; "tree" the tree draw
\* succeeds at the first floor cell with all its neighbour draws, and no
\* later draw does
add_vegetation(g, draws) ==
  IF draws = "grass"
  THEN Paint(g, {c \in Interior(width, height) : g[c[2] + 1][c[1] + 1] = "floor"}, "grass")
  ELSE IF draws = "tree"
  THEN Paint(g, UNION {{c} \cup {n \in Neighbours(c) : get_tile(g, n[1], n[2]) = "floor"} :
                         c \in FirstFloor(g)}, "trees")
  ELSE g

\* step 5
AddVegetation ==
  /\ pc = "vegetation"
  /\ \E draws \in {"none", "grass", "tree"} :
       terrain_grid' = add_vegetation(terrain_grid, draws)
  /\ pc' = step_after("generated")
  /\ UNCHANGED <<params, entities, error, reserved, locals>>

(***************************************************************************)
(* The generate_* calls from their first statement to their return         *)
(***************************************************************************)
\* the calls explored: environment, algorithm, width, height
GenInputs ==
  {<<"dungeon", "rooms_corridors", RoomsWidth, RoomsHeight>>,
   <<"dungeon", "rooms_corridors", SmallRoomsWidth, SmallRoomsHeight>>,
   <<"dungeon", "bsp", BspWidth, BspHeight>>,
   <<"dungeon", "bsp", NarrowBspWidth, NarrowBspHeight>>,
   <<"dungeon", "cellular", CaveWidth, CaveHeight>>,
   <<"dungeon", "maze", CaveWidth, CaveHeight>>,
   <<"dungeon", "Cellular", CaveWidth, CaveHeight>>,
   <<"forest", "", ForestWidth, ForestHeight>>,
   <<"village", "", VillageWidth, VillageHeight>>}

\* has_upstairs, has_downstairs, create_player: the defaults of the
\* signature and a level with both stairs
GenFlags == {<<FALSE, FALSE, TRUE>>, <<TRUE, TRUE, FALSE>>}

Init ==
  /\ \E i \in GenInputs :
       /\ environment = i[1] /\ algorithm = i[2]
       /\ width = i[3] /\ height = i[4]
       /\ terrain_grid = NewGrid(i[3], i[4])
  /\ \E f \in GenFlags :
       has_upstairs = f[1] /\ has_downstairs = f[2] /\ create_player = f[3]
  /\ player_x = 1 /\ player_y = 1
  /\ entities = <<>>
  /\ reserved = {}
  /\ NewWorld
  /\ pc = "start"
  /\ error = "none"
  /\ num_regions = 0
  /\ rooms = <<>> /\ num_rooms_target = 0 /\ attempts = 0
  /\ root = <<>>
  /\ num_iterations = 0
  /\ square_size = 0
  /\ call = <<>> /\ returned = <<>> /\ grid_before = <<>>

Next ==
  \/ generate_dungeon
  \/ try_place_room
  \/ ConnectRooms
  \/ InitializeRandom
  \/ CaIteration
  \/ EnsureConnectivity
  \/ SplitTree
  \/ CreateRoomsInLeaves
  \/ ConnectSiblings
  \/ TreeClusters
  \/ Ponds
  \/ Stream
  \/ CreateClearings
  \/ GrassPatches
  \/ CreateRoads
  \/ TownSquare
  \/ PlaceBuildings
  \/ AddVegetation
  \/ AddBorderWalls
  \/ CreateEntities
  \/ place_stairs_and_player

Spec == Init /\ [][Next]_vars

(***************************************************************************)
(* Properties of the generated levels                                      *)
(***************************************************************************)
\* the cells of the outer ring
Ring == {c \in Cells(width, height) :
           c[1] = 0 \/ c[1] = width - 1 \/ c[2] = 0 \/ c[2] = height - 1}

RingIsWall == \A c \in Ring : TileAt(c) = "wall"

\* add_border_walls has run: the grid is the one that is baked and returned
GridFinal == pc \in {"bake", "place", "done"}

KnownAlgorithms == {"rooms_corridors", "cellular", "bsp"}

\* C1: in every generator (the three dungeon algorithms, forest, village),
\* from add_border_walls on and so when generate_* returns, every cell
\* with x = 0, x = width - 1, y = 0 or y = height - 1 is "wall"
C1_BorderRing == GridFinal => RingIsWall

\* a forest level has returned: its generator writes no wall, so every
\* wall of the ring was written by add_border_walls over floor or water
C1_Witness ==
  /\ pc = "done" /\ environment = "forest"
  /\ \A c \in Interior(width, height) : TileAt(c) # "wall"

\* C2: in every rooms_corridors or bsp level the non-blocked cells of the
\* final grid form exactly one 4-connected component, for every explored
\* outcome of room placement, split, corridor width and leg order
C2_DungeonConnected ==
  (GridFinal /\ environment = "dungeon" /\ algorithm \in {"rooms_corridors", "bsp"})
     => OneComponent

\* a bsp level of three or more rooms has returned
C2_Witness ==
  /\ pc = "done" /\ environment = "dungeon" /\ algorithm = "bsp"
  /\ Len(rooms) >= 3

\* C4 as stated: in every forest or village level the non-blocked cells of
\* the final grid form exactly one 4-connected component
C4_OutdoorConnected ==
  (GridFinal /\ environment \in {"forest", "village"}) => OneComponent

\* C10: generate_dungeon with an algorithm name other than the three known
\* ones ends with the unknown-algorithm error at its first step, and no
\* entity of any kind has been created; no other call ends with that error
C10_UnknownAlgorithm ==
  /\ (environment = "dungeon" /\ algorithm \notin KnownAlgorithms) =>
        /\ pc \in {"start", "error"}
        /\ pc = "error" => error = "unknown_algorithm"
        /\ entities = <<>> /\ reserved = {}
  /\ error = "unknown_algorithm" =>
        (environment = "dungeon" /\ algorithm \notin KnownAlgorithms)

C10_Witness ==
  /\ pc = "error" /\ error = "unknown_algorithm"
  /\ has_upstairs /\ has_downstairs

\* C11 as stated: a generate_dungeon call with a known algorithm that ends
\* with an error ends with the no-valid-floor error; no draw of a room
\* position, of a split offset or of a room size is from an empty range
C11_OnlyNoValidFloor ==
  (pc = "error" /\ environment = "dungeon" /\ algorithm \in KnownAlgorithms)
     => error = "no_valid_floor"

\* the entities of the level that are not stairs or player
TerrainEntities == SelectSeq(entities, LAMBDA e : e[1] \notin Special)

\* the number of entities of the given kind
CountOf(kind) == Cardinality({i \in 1 .. Len(entities) : entities[i][1] = kind})

\* C12: when a generate_* call has returned, the level holds exactly
\* width * height terrain entities, one for each cell and of the kind the
\* final grid has there, one entity for each requested placement
\* (upstairs, downstairs, player), and no other entity
C12_Entities ==
  (pc = "done") =>
     /\ Len(TerrainEntities) = width * height
     /\ SeqToSet(TerrainEntities) = {<<TileAt(c), c[1], c[2]>> : c \in Cells(width, height)}
     /\ CountOf("upstairs") = (IF has_upstairs THEN 1 ELSE 0)
     /\ CountOf("downstairs") = (IF has_downstairs THEN 1 ELSE 0)
     /\ CountOf("player") = (IF create_player THEN 1 ELSE 0)
     /\ Len(entities) = width * height + CountOf("upstairs") + CountOf("downstairs")
                          + CountOf("player")

\* a village level with both stairs has returned, its grid of four or more
\* tile kinds
C12_Witness ==
  /\ pc = "done" /\ environment = "village" /\ has_upstairs /\ has_downstairs
  /\ Cardinality({TileAt(c) : c \in Cells(width, height)}) >= 4

(***************************************************************************)
(* set_tile, get_tile and flood_fill called on their own, on every grid of *)
(* floor and wall and on every grid of grass and water, with coordinates   *)
(* in and out of bounds, and on the two documented 3x3 grids.              *)
(***************************************************************************)
\* the grids whose cells each hold one of the tiles given
GridsOf(w, h, tiles) ==
  {[j \in 1 .. h |-> [i \in 1 .. w |-> f[<<i - 1, j - 1>>]]] : f \in [Cells(w, h) -> tiles]}

\* the coordinates explored along an axis of size n: two cells out of
\* bounds on either side
Coords(n) == -2 .. n + 1

\* the 3x3 grid of walls around the given centre tile
Walled3x3(centre) ==
  [j \in 1 .. 3 |-> [i \in 1 .. 3 |-> IF i = 2 /\ j = 2 THEN centre ELSE "wall"]]

\* the grids explored: every grid of the bounded size, and the two
\* documented 3x3 grids
TilesInputs ==
  {<<TilesWidth, TilesHeight, g>> :
      g \in GridsOf(TilesWidth, TilesHeight, {"floor", "wall"})
             \cup GridsOf(TilesWidth, TilesHeight, {"grass", "water"})}
  \cup {<<3, 3, Walled3x3("floor")>>, <<3, 3, Walled3x3("wall")>>}

InitTiles ==
  /\ \E i \in TilesInputs : width = i[1] /\ height = i[2] /\ terrain_grid = i[3]
  /\ player_x = 1 /\ player_y = 1
  /\ has_upstairs = FALSE /\ has_downstairs = FALSE /\ create_player = FALSE
  /\ entities = <<>>
  /\ reserved = {}
  /\ NewWorld
  /\ num_regions = 0
  /\ environment = "dungeon" /\ algorithm = "cellular"
  /\ rooms = <<>> /\ num_rooms_target = 0 /\ attempts = 0
  /\ root = <<>>
  /\ num_iterations = 0
  /\ square_size = 0
  /\ call = <<>> /\ returned = <<>> /\ grid_before = <<>>
  /\ pc = "call"
  /\ error = "none"

\* gen.set_tile(x, y, tile_type)
SetTile ==
  /\ pc = "call"
  /\ \E x \in Coords(width), y \in Coords(height), tile_type \in {"floor", "trees"} :
       /\ call' = <<"set_tile", x, y, tile_type>>
       /\ terrain_grid' = set_tile(terrain_grid, x, y, tile_type)
  /\ returned' = <<>>
  /\ grid_before' = terrain_grid
  /\ pc' = "returned"
  /\ UNCHANGED <<arguments, entities, error, reserved, locals>>

\* gen.get_tile(x, y)
GetTile ==
  /\ pc = "call"
  /\ \E x \in Coords(width), y \in Coords(height) :
       /\ call' = <<"get_tile", x, y>>
       /\ returned' = get_tile(terrain_grid, x, y)
  /\ grid_before' = terrain_grid
  /\ pc' = "returned"
  /\ UNCHANGED <<arguments, terrain_grid, entities, error, reserved, locals>>

\* gen.flood_fill(start_x, start_y)
FloodFill ==
  /\ pc = "call"
  /\ \E start_x \in Coords(width), start_y \in Coords(height) :
       /\ call' = <<"flood_fill", start_x, start_y>>
       /\ returned' = flood_fill(terrain_grid, start_x, start_y)
  /\ grid_before' = terrain_grid
  /\ pc' = "returned"
  /\ UNCHANGED <<arguments, terrain_grid, entities, error, reserved, locals>>

NextTiles == SetTile \/ GetTile \/ FloodFill

SpecTiles == InitTiles /\ [][NextTiles]_vars

Returned(name) == pc = "returned" /\ call[1] = name

\* the non-blocked cells reachable from c by 4-directional steps through
\* non-blocked cells; none when c is blocked or out of bounds
Reachable(c) == IF c \in OpenCells THEN Grow(OpenCells, {c}, {c}) ELSE {}

\* C13: flood_fill(x0, y0) returns, leaves the grid as it was, and returns
\* exactly the in-bounds non-blocked cells reachable from (x0, y0) by
\* 4-directional steps through in-bounds non-blocked cells: no cell when
\* the start is blocked or out of bounds, and exactly the centre for the
\* floor centre of a 3x3 grid whose other cells are wall
C13_FloodFill ==
  Returned("flood_fill") =>
     /\ terrain_grid = grid_before
     /\ returned = Reachable(<<call[2], call[3]>>)
     /\ (~InBounds(call[2], call[3]) \/ is_blocked(terrain_grid, call[2], call[3]))
          => returned = {}
     /\ (<<call[2], call[3]>> = <<1, 1>> /\ terrain_grid = Walled3x3("floor"))
          => returned = {<<1, 1>>}
     /\ (<<call[2], call[3]>> = <<1, 1>> /\ terrain_grid = Walled3x3("wall"))
          => returned = {}

\* a fill that returned three or more cells and left a non-blocked cell out
C13_Witness ==
  /\ Returned("flood_fill")
  /\ Cardinality(returned) >= 3
  /\ OpenCells \ returned # {}

\* C14: set_tile(x, y, kind) with (x, y) out of bounds, negative
\* coordinates included, leaves every cell as it was, and with (x, y) in
\* bounds changes that one cell to kind and no other; get_tile(x, y) with
\* (x, y) out of bounds returns "wall" and leaves the grid as it was
C14_OutOfBounds ==
  /\ Returned("set_tile") =>
        \A c \in Cells(width, height) :
           TileAt(c) = IF c = <<call[2], call[3]>> THEN call[4]
                       ELSE grid_before[c[2] + 1][c[1] + 1]
  /\ Returned("get_tile") =>
        /\ terrain_grid = grid_before
        /\ (call[2] < 0 \/ call[2] >= width \/ call[3] < 0 \/ call[3] >= height)
             => returned = "wall"

\* set_tile was called with a negative coordinate on a grid none of whose
\* cells holds the tile it was given
C14_Witness ==
  /\ Returned("set_tile")
  /\ call[2] < 0 /\ call[3] \in 0 .. height - 1
  /\ \A c \in Cells(width, height) : TileAt(c) # call[4]

(***************************************************************************)
(* Properties of the rooms of a rooms-and-corridors level                  *)
(***************************************************************************)
RoomsCorridors == environment = "dungeon" /\ algorithm = "rooms_corridors"

\* the cells of a room
RoomCells(room) ==
  (room.x .. room.x + room.width - 1) \X (room.y .. room.y + room.height - 1)

\* C15: at every point of rooms-and-corridors generation, no two distinct
\* accepted rooms intersect with the 1-cell buffer: a cell of one is
\* neither a cell of the other nor next to one, diagonally included
C15_RoomsApart ==
  RoomsCorridors =>
     \A i \in 1 .. Len(rooms), j \in 1 .. Len(rooms) :
        i # j =>
          /\ ~intersects(rooms[i], rooms[j], 1)
          /\ RoomCells(rooms[i]) \cap RoomCells(rooms[j]) = {}
          /\ \A c \in RoomCells(rooms[i]), d \in RoomCells(rooms[j]) :
                Abs(c[1] - d[1]) >= 2 \/ Abs(c[2] - d[2]) >= 2

\* three rooms are accepted and a later room was turned down
C15_Witness ==
  /\ RoomsCorridors /\ pc = "rooms"
  /\ Len(rooms) >= 3 /\ attempts > Len(rooms)

\* C16: every cell of every accepted room is strictly inside the border
\* and is floor from the room's acceptance on, so also in the final grid:
\* no corridor and no border wall turns it into another tile
C16_RoomsFloor ==
  RoomsCorridors =>
     \A k \in 1 .. Len(rooms) :
        \A c \in RoomCells(rooms[k]) :
           c \in Interior(width, height) /\ TileAt(c) = "floor"

\* a level of three or more rooms has returned, one of them against the
\* last interior column
C16_Witness ==
  /\ RoomsCorridors /\ pc = "done"
  /\ Len(rooms) >= 3
  /\ \E k \in 1 .. Len(rooms) : rooms[k].x + rooms[k].width - 1 = width - 3

(***************************************************************************)
(* Properties of the BSP tree                                              *)
(***************************************************************************)
\* the leaves of a tree
RECURSIVE Leaves(_)
Leaves(node) ==
  IF node.left # <<>> \/ node.right # <<>>
  THEN (IF node.left # <<>> THEN Leaves(node.left[1]) ELSE {})
       \cup (IF node.right # <<>> THEN Leaves(node.right[1]) ELSE {})
  ELSE {node}

\* split_tree has run and has split the root
RootSplit ==
  /\ environment = "dungeon" /\ algorithm = "bsp"
  /\ pc \notin {"start", "split"}
  /\ root[1].left # <<>>

\* C17 as stated: after split_tree every leaf other than an unsplit root
\* is at least min_size (8) wide and at least min_size high
C17_LeavesMinSize ==
  RootSplit => \A leaf \in Leaves(root[1]) : leaf.width >= 8 /\ leaf.height >= 8

(***************************************************************************)
(* carve_corridor called on its own: on a grid of walls, a grid of water   *)
(* and a grid of walls and floor in a chequer pattern, between any two     *)
(* points in bounds or one cell out of bounds, with either leg order.      *)
(***************************************************************************)
CorridorGrids(w, h) ==
  {[j \in 1 .. h |-> [i \in 1 .. w |-> "wall"]],
   [j \in 1 .. h |-> [i \in 1 .. w |-> "water"]],
   [j \in 1 .. h |-> [i \in 1 .. w |-> IF (i + j) % 2 = 0 THEN "floor" ELSE "wall"]]}

InitCorridor ==
  /\ width = CorridorGridWidth /\ height = CorridorGridHeight
  /\ terrain_grid \in CorridorGrids(CorridorGridWidth, CorridorGridHeight)
  /\ player_x = 1 /\ player_y = 1
  /\ has_upstairs = FALSE /\ has_downstairs = FALSE /\ create_player = FALSE
  /\ entities = <<>>
  /\ reserved = {}
  /\ NewWorld
  /\ num_regions = 0
  /\ environment = "dungeon" /\ algorithm = "cellular"
  /\ rooms = <<>> /\ num_rooms_target = 0 /\ attempts = 0
  /\ root = <<>>
  /\ num_iterations = 0
  /\ square_size = 0
  /\ call = <<>> /\ returned = <<>> /\ grid_before = <<>>
  /\ pc = "call"
  /\ error = "none"

\* gen.carve_corridor(x1, y1, x2, y2, width); the last element of call is
\* the outcome of random.random() < 0.5
CarveCorridor ==
  /\ pc = "call"
  /\ \E x1 \in -1 .. width, y1 \in -1 .. height, x2 \in -1 .. width, y2 \in -1 .. height,
        cw \in 1 .. MaxCorridorWidth, horizontal_first \in BOOLEAN :
       /\ call' = <<"carve_corridor", x1, y1, x2, y2, cw, horizontal_first>>
       /\ terrain_grid' = carve_corridor(terrain_grid, x1, y1, x2, y2, cw, horizontal_first)
  /\ returned' = <<>>
  /\ grid_before' = terrain_grid
  /\ pc' = "returned"
  /\ UNCHANGED <<arguments, entities, error, reserved, locals>>

NextCorridor == CarveCorridor

SpecCorridor == InitCorridor /\ [][NextCorridor]_vars

\* the tile a cell had when the call was made
TileBefore(c) == grid_before[c[2] + 1][c[1] + 1]

\* the cells of the rectangle spanned by two corners
Rect(x1, y1, x2, y2) == (Min(x1, x2) .. Max(x1, x2)) \X (Min(y1, y2) .. Max(y1, y2))

\* C18: with x1 = x2 or y1 = y2 and width 1, carve_corridor leaves the
\* same grid for both leg orders: the cells of the straight segment
\* between the two endpoints are floor and every other cell is as it was;
\* carve_corridor(2, 2, 2, 5, 1) sets (2,2), (2,3), (2,4), (2,5) to floor
C18_StraightCorridor ==
  (Returned("carve_corridor") /\ call[6] = 1 /\ (call[2] = call[4] \/ call[3] = call[5])) =>
     /\ \A c \in Cells(width, height) :
           TileAt(c) = IF c \in Rect(call[2], call[3], call[4], call[5]) THEN "floor"
                       ELSE TileBefore(c)
     /\ terrain_grid = carve_corridor(grid_before, call[2], call[3], call[4], call[5],
                                       1, ~call[7])
     /\ <<call[2], call[3], call[4], call[5]>> = <<2, 2, 2, 5>> =>
           \A c \in Cells(width, height) :
              TileAt(c) = "floor" <=>
                (c \in {<<2, 2>>, <<2, 3>>, <<2, 4>>, <<2, 5>>} \/ TileBefore(c) = "floor")

\* the documented call on a grid of walls
C18_Witness ==
  /\ Returned("carve_corridor")
  /\ <<call[2], call[3], call[4], call[5], call[6]>> = <<2, 2, 2, 5, 1>>
  /\ \A c \in Cells(width, height) : TileBefore(c) = "wall"

\* C20: with both endpoints in bounds, after carve_corridor the two
\* endpoints are joined by a 4-connected path of floor cells inside their
\* bounding rectangle, for either leg order; every cell the call changed
\* is floor and lies in that rectangle extended by width - 1 cells
\* towards +x and +y
C20_CorridorJoins ==
  (Returned("carve_corridor") /\ InBounds(call[2], call[3]) /\ InBounds(call[4], call[5])) =>
     LET rect == Rect(call[2], call[3], call[4], call[5])
         floor_cells == {c \in rect : TileAt(c) = "floor"}
         p1 == <<call[2], call[3]>>
         p2 == <<call[4], call[5]>>
     IN  /\ p1 \in floor_cells
         /\ p2 \in Grow(floor_cells, {p1}, {p1})
         /\ \A c \in Cells(width, height) :
               TileAt(c) # TileBefore(c) =>
                 /\ TileAt(c) = "floor"
                 /\ Min(call[2], call[4]) <= c[1]
                 /\ c[1] <= Max(call[2], call[4]) + call[6] - 1
                 /\ Min(call[3], call[5]) <= c[2]
                 /\ c[2] <= Max(call[3], call[5]) + call[6] - 1

\* an L-shaped corridor of width 2 on a grid of water whose second leg runs
\* along the last column, so that its widening falls out of bounds
C20_Witness ==
  /\ Returned("carve_corridor") /\ InBounds(call[2], call[3])
  /\ call[2] < call[4] /\ call[3] < call[5] /\ call[4] = width - 1 /\ call[5] < height
  /\ call[6] = 2 /\ call[7]
  /\ \A c \in Cells(width, height) : TileBefore(c) = "water"

(***************************************************************************)
(* Properties of the finishing steps                                       *)
(***************************************************************************)
\* the terrain entities are one per cell, of the kind the grid has there
IsGrid(terrain) ==
  /\ Len(terrain) = width * height
  /\ SeqToSet(terrain) = {<<TileAt(c), c[1], c[2]>> : c \in Cells(width, height)}

\* the entities baked from the grid are those of the grid as it is now
BakedIsGrid == IsGrid(TerrainEntities)

\* every terrain entity was created before every stair and the player
TerrainFirst ==
  \A i \in 1 .. Len(entities) : entities[i][1] \in Special => i > width * height

\* from the baking on the baked entities are those of the grid, whose ring
\* is wall
BakedThenPlaced ==
  entities # <<>> => (BakedIsGrid /\ RingIsWall /\ TerrainFirst)

\* a step that creates terrain entities starts from an empty level and a
\* grid whose ring is wall, a step that creates a stair or the player
\* starts from the baked grid, and neither changes the grid
BakeAndPlaceSteps ==
  /\ pc \in {"bake", "place"} => terrain_grid' = terrain_grid
  /\ entities' # entities =>
        LET terrain == TerrainEntities
            terrain_after == TerrainEntities'
        IN  /\ terrain_grid' = terrain_grid
            /\ terrain_after # terrain =>
                  (RingIsWall /\ entities = <<>> /\ pc' = "place")
            /\ Len(entities') > Len(terrain_after) =>
                  (IsGrid(terrain) /\ pc = "place" /\ terrain_after = terrain)

\* C19: in every generator the border is walled, then the grid is baked,
\* then stairs and player are placed: a step that bakes starts from a grid
\* whose ring is wall and an empty level, a step that places starts from
\* the baked grid, neither changes the grid, and from the baking on the
\* baked entities are those of the grid, so placement reads the grid that
\* was baked
C19_FinishingOrder ==
  /\ [](BakedThenPlaced)
  /\ [][BakeAndPlaceSteps]_vars

\* a forest level with both stairs has returned, a cell of its ring water
\* or floor until the border was walled
C19_Witness ==
  /\ pc = "done" /\ environment = "forest" /\ has_upstairs /\ has_downstairs
  /\ TerrainFirst /\ Len(entities) = width * height + 2

(***************************************************************************)
(* build_minimum_spanning_tree called on its own, on every list of up to   *)
(* MaxMstRooms rooms of 4x4 cells placed on two rows: centres tie and      *)
(* coincide.                                                               *)
(***************************************************************************)
MstRooms == {Room(x, y, 4, 4) : x \in 0 .. MstSpan, y \in 0 .. 1}

RECURSIVE ListsOf(_, _)
ListsOf(S, n) ==
  IF n = 0 THEN {<<>>}
  ELSE LET shorter == ListsOf(S, n - 1)
       IN  shorter \cup {Append(l, e) : l \in {m \in shorter : Len(m) = n - 1}, e \in S}

InitMst ==
  /\ width = RoomsWidth /\ height = RoomsHeight
  /\ terrain_grid = NewGrid(RoomsWidth, RoomsHeight)
  /\ rooms \in ListsOf(MstRooms, MaxMstRooms)
  /\ player_x = 1 /\ player_y = 1
  /\ has_upstairs = FALSE /\ has_downstairs = FALSE /\ create_player = FALSE
  /\ entities = <<>>
  /\ reserved = {}
  /\ NewWorld
  /\ num_regions = 0
  /\ environment = "dungeon" /\ algorithm = "rooms_corridors"
  /\ num_rooms_target = 0 /\ attempts = 0
  /\ root = <<>>
  /\ num_iterations = 0
  /\ square_size = 0
  /\ call = <<>> /\ returned = <<>> /\ grid_before = <<>>
  /\ pc = "call"
  /\ error = "none"

\* gen.build_minimum_spanning_tree()
BuildMinimumSpanningTree ==
  /\ pc = "call"
  /\ call' = <<"build_minimum_spanning_tree">>
  /\ returned' \in build_minimum_spanning_tree(rooms)
  /\ grid_before' = terrain_grid
  /\ pc' = "returned"
  /\ UNCHANGED <<arguments, terrain_grid, entities, error, reserved, locals>>

NextMst == BuildMinimumSpanningTree

SpecMst == InitMst /\ [][NextMst]_vars

\* the rooms connected before the k-th edge of the list returned
ConnectedBefore(k) == {1} \cup {returned[m][2] : m \in 1 .. k - 1}

\* C21: build_minimum_spanning_tree returns; for n >= 2 rooms its result
\* has n - 1 edges (i, j), every j a room not connected before that edge
\* and every i one connected before it, so the edges form a spanning tree
\* over all rooms; for fewer than 2 rooms it returns no edge
C21_SpanningTree ==
  Returned("build_minimum_spanning_tree") =>
     /\ Len(rooms) < 2 => returned = <<>>
     /\ Len(rooms) >= 2 =>
           /\ Len(returned) = Len(rooms) - 1
           /\ \A k \in 1 .. Len(returned) :
                 /\ returned[k][1] \in ConnectedBefore(k)
                 /\ returned[k][2] \in (1 .. Len(rooms)) \ ConnectedBefore(k)
           /\ ConnectedBefore(Len(returned) + 1) = 1 .. Len(rooms)

\* four rooms, two of them with the same centre
C21_Witness ==
  /\ Returned("build_minimum_spanning_tree")
  /\ Len(rooms) = 4
  /\ \E i \in 1 .. 4, j \in 1 .. 4 : i # j /\ center(rooms[i]) = center(rooms[j])

\* the sum of the Manhattan distances between the centres over a set of
\* edges
RECURSIVE Weight(_)
Weight(edges) ==
  IF edges = {} THEN 0
  ELSE LET e == CHOOSE f \in edges : TRUE
       IN  Manhattan(center(rooms[e[1]]), center(rooms[e[2]])) + Weight(edges \ {e})

\* the rooms joined to room 1 by the edges, taken in either direction
RECURSIVE JoinedTo(_, _)
JoinedTo(edges, seen) ==
  LET more == {e[2] : e \in {f \in edges : f[1] \in seen}}
                \cup {e[1] : e \in {f \in edges : f[2] \in seen}}
  IN  IF more \subseteq seen THEN seen ELSE JoinedTo(edges, seen \cup more)

\* the spanning trees of the rooms: the sets of n - 1 edges i < j that
\* join every room to room 1
SpanningTrees ==
  LET n == Len(rooms)
      all == {e \in (1 .. n) \X (1 .. n) : e[1] < e[2]}
  IN  {t \in SUBSET all : Cardinality(t) = n - 1 /\ JoinedTo(t, {1}) = 1 .. n}

\* C22: the edges returned are a minimum spanning tree: no spanning tree
\* of the rooms has a smaller sum of Manhattan distances between centres,
\* ties and coinciding centres included
C22_MinimumWeight ==
  (Returned("build_minimum_spanning_tree") /\ Len(rooms) >= 2) =>
     LET weight == Weight(SeqToSet(returned))
     IN  /\ Cardinality(SeqToSet(returned)) = Len(rooms) - 1
         /\ \A t \in SpanningTrees : weight <= Weight(t)

\* four rooms with four different centres, two pairs of them at the same
\* distance, and a spanning tree heavier than the one returned
C22_Witness ==
  /\ Returned("build_minimum_spanning_tree")
  /\ Len(rooms) = 4
  /\ Cardinality({center(rooms[i]) : i \in 1 .. 4}) = 4
  /\ \E t \in SpanningTrees : Weight(t) > Weight(SeqToSet(returned))


(***************************************************************************)
(* The extra connections of generate_dungeon's rooms_corridors branch      *)
(* (src/roguelike/mapgen/dungeon.py, 459-473), with the pairs drawn and    *)
(* the pairs connected kept for inspection.  The rooms stand in one row of *)
(* a map seven cells high, the only rows try_place_room can use there.     *)
(***************************************************************************)
ExtraWidth == 7 * MaxExtraRooms + 1

ExtraHeight == 7

\* the rooms the k-th place of the row can hold
RowRooms(k) ==
  {Room(7 * k - 6, 1, w, 4) : w \in IF k <= MaxWideRooms THEN {4, 5} ELSE {4}}

\* the lists of n rooms, one in each of the first n places
RECURSIVE RowLists(_)
RowLists(n) ==
  IF n = 0 THEN {<<>>}
  ELSE {Append(l, r) : l \in RowLists(n - 1), r \in RowRooms(n)}

RECURSIVE CreateRooms(_, _)
CreateRooms(g, rs) ==
  IF rs = <<>> THEN g ELSE CreateRooms(create_room(g, rs[1]), Tail(rs))

\* the "for _ in range(num_extra)" draws of i and j
ExtraDraws(rs, n) ==
  [1 .. n -> randint(0, Len(rs) - 1) \X randint(0, Len(rs) - 1)]

\* "if i != j": the draws that connect two rooms
Connecting(draws) == SelectSeq(draws, LAMBDA d : d[1] # d[2])

\* gen.rooms[i], gen.rooms[j] of a list of draws, as positions of rooms
RoomPairs(draws) == [k \in 1 .. Len(draws) |-> <<draws[k][1] + 1, draws[k][2] + 1>>]

InitExtra ==
  /\ width = ExtraWidth /\ height = ExtraHeight
  /\ \E n \in 2 .. MaxExtraRooms :
       /\ rooms \in RowLists(n)
       /\ terrain_grid = CreateRooms(NewGrid(ExtraWidth, ExtraHeight), rooms)
  /\ player_x = 1 /\ player_y = 1
  /\ has_upstairs = FALSE /\ has_downstairs = FALSE /\ create_player = FALSE
  /\ entities = <<>>
  /\ reserved = {}
  /\ NewWorld
  /\ num_regions = 0
  /\ environment = "dungeon" /\ algorithm = "rooms_corridors"
  /\ num_rooms_target = 15 /\ attempts = 45
  /\ root = <<>>
  /\ num_iterations = 0
  /\ square_size = 0
  /\ call = <<>> /\ returned = <<>> /\ grid_before = <<>>
  /\ pc = "rooms"
  /\ error = "none"

\* "if len(gen.rooms) >= 2": the corridors of the spanning tree, then the
\* extra ones
ConnectRoomsCounted ==
  /\ pc = "rooms"
  /\ ~(Len(rooms) < num_rooms_target /\ attempts < num_rooms_target * 3)
  /\ Len(rooms) >= 2
  /\ \E connections \in build_minimum_spanning_tree(rooms) :
       \E g \in ConnectAll(terrain_grid, rooms, connections),
          draws \in ExtraDraws(rooms, num_extra(connections)) :
          /\ terrain_grid' \in ConnectAll(g, rooms, RoomPairs(Connecting(draws)))
          /\ call' = <<"extra_connections", draws>>
          /\ returned' = <<connections, Connecting(draws)>>
  /\ grid_before' = terrain_grid
  /\ pc' = step_after("generated")
  /\ UNCHANGED <<arguments, entities, error, reserved, locals>>

NextExtra == ConnectRoomsCounted

SpecExtra == InitExtra /\ [][NextExtra]_vars

Connected == pc # "rooms" /\ returned # <<>>

\* C23 as stated: the number of extra corridors carved is the number of
\* spanning-tree edges divided by 5 and rounded up, and at least 1
C23_ExtraIsCeiling ==
  Connected =>
    LET edges == Len(returned[1])
        extra == Len(returned[2])
    IN  /\ extra >= 1
        /\ 5 * extra >= edges /\ 5 * (extra - 1) < Max(edges, 1)

\* C23, amended: the number of pairs drawn is the number of spanning-tree
\* edges divided by 5 and rounded down, or 1 if that is 0; a corridor is
\* carved for exactly the drawn pairs of two different rooms, so the number
\* carved is at most the number drawn
C23_ExtraAtMostFloor ==
  Connected =>
    LET edges == Len(returned[1])
        drawn == Len(call[2])
    IN  /\ drawn >= 1
        /\ 5 * drawn <= Max(edges, 5) /\ Max(edges, 5) < 5 * drawn + 5
        /\ Len(returned[2]) = Cardinality({k \in 1 .. drawn : call[2][k][1] # call[2][k][2]})
        /\ Len(returned[2]) <= drawn

\* seven rooms, six edges: one pair drawn and one corridor carved
C23_Witness ==
  /\ Connected
  /\ Len(returned[1]) = 6
  /\ Len(call[2]) = 1
  /\ Len(returned[2]) = 1


(***************************************************************************)
(* ca_iteration called on its own                                          *)
(* (src/roguelike/mapgen/dungeon.py, 174-198)                              *)
(***************************************************************************)
InitCa ==
  /\ width = CaWidth /\ height = CaHeight
  /\ terrain_grid \in [1 .. CaHeight -> [1 .. CaWidth -> {"floor", "wall"}]]
  /\ player_x = 1 /\ player_y = 1
  /\ has_upstairs = FALSE /\ has_downstairs = FALSE /\ create_player = FALSE
  /\ entities = <<>>
  /\ reserved = {}
  /\ NewWorld
  /\ num_regions = 0
  /\ environment = "dungeon" /\ algorithm = "cellular"
  /\ rooms = <<>> /\ num_rooms_target = 0 /\ attempts = 0
  /\ root = <<>>
  /\ num_iterations = 0
  /\ square_size = 0
  /\ call = <<>> /\ returned = <<>> /\ grid_before = <<>>
  /\ pc = "call"
  /\ error = "none"

\* gen.ca_iteration()
CaIterationCall ==
  /\ pc = "call"
  /\ call' = <<"ca_iteration">>
  /\ terrain_grid' = ca_iteration(terrain_grid)
  /\ grid_before' = terrain_grid
  /\ pc' = "returned"
  /\ UNCHANGED <<arguments, entities, error, reserved, locals, returned>>

NextCa == CaIterationCall

SpecCa == InitCa /\ [][NextCa]_vars

\* the walls among the nine cells around (x, y) of a grid
WallsAround(g, x, y) ==
  {c \in (x - 1 .. x + 1) \X (y - 1 .. y + 1) : g[c[2] + 1][c[1] + 1] = "wall"}

\* C24: after ca_iteration every strictly interior cell is wall if at least
\* 5 of the 9 cells around it (itself included) were wall in the grid
\* before the call and floor otherwise, and the border ring is as before
C24_Synchronous ==
  Returned("ca_iteration") =>
    \A c \in Cells(width, height) :
       IF c \in Interior(width, height)
       THEN terrain_grid[c[2] + 1][c[1] + 1] =
              IF Cardinality(WallsAround(grid_before, c[1], c[2])) >= 5
              THEN "wall" ELSE "floor"
       ELSE terrain_grid[c[2] + 1][c[1] + 1] = grid_before[c[2] + 1][c[1] + 1]

\* the first interior cell turns to wall and leaves its neighbour with five
\* walls in the new grid, four in the old: the neighbour turns to floor
C24_Witness ==
  /\ Returned("ca_iteration")
  /\ grid_before[2][2] = "floor" /\ terrain_grid[2][2] = "wall"
  /\ Cardinality(WallsAround(grid_before, 2, 1)) = 4
  /\ Cardinality(WallsAround(terrain_grid, 2, 1)) = 5
  /\ terrain_grid[2][3] = "floor"
  /\ \E c \in Ring : grid_before[c[2] + 1][c[1] + 1] = "floor"


(***************************************************************************)
(* generate_stream called on its own, one pass of the walk's loop at a     *)
(* time (src/roguelike/mapgen/forest.py, 67-119).  call holds the          *)
(* arguments and, once drawn, the draws of the drawing loop; returned      *)
(* holds the list positions, whose last element is (x, y).                 *)
(***************************************************************************)
InitStream ==
  /\ width = StreamWidth /\ height = StreamHeight
  /\ terrain_grid = NewGrid(StreamWidth, StreamHeight)
  /\ \E start \in Cells(StreamWidth, StreamHeight), end \in Cells(StreamWidth, StreamHeight) :
       /\ call = <<"generate_stream", start[1], start[2], end[1], end[2]>>
       /\ returned = <<start>>
  /\ grid_before = NewGrid(StreamWidth, StreamHeight)
  /\ player_x = 1 /\ player_y = 1
  /\ has_upstairs = FALSE /\ has_downstairs = FALSE /\ create_player = FALSE
  /\ entities = <<>>
  /\ reserved = {}
  /\ NewWorld
  /\ num_regions = 0
  /\ environment = "forest" /\ algorithm = "rooms_corridors"
  /\ rooms = <<>> /\ num_rooms_target = 0 /\ attempts = 0
  /\ root = <<>>
  /\ num_iterations = 0
  /\ square_size = 0
  /\ pc = "walk"
  /\ error = "none"

\* "abs(x - end_x) <= 1 and abs(y - end_y) <= 1"
CloseEnough(p, end_x, end_y) == Abs(p[1] - end_x) <= 1 /\ Abs(p[2] - end_y) <= 1

\* one test of the while condition and, when it holds, one pass of the loop
WalkStep ==
  /\ pc = "walk"
  /\ LET p == returned[Len(returned)]
         end_x == call[4]
         end_y == call[5]
     IN  IF p # <<end_x, end_y>> /\ Len(returned) < width * 2
         THEN \E q \in stream_step(p[1], p[2], end_x, end_y) :
                /\ returned' = Append(returned, q)
                /\ pc' = IF CloseEnough(q, end_x, end_y) THEN "draw" ELSE "walk"
         ELSE /\ pc' = "draw"
              /\ UNCHANGED returned
  /\ UNCHANGED <<arguments, call, grid_before, terrain_grid, entities, error,
                 reserved, locals>>

\* "for sx, sy in positions": the drawing loop
DrawStream ==
  /\ pc = "draw"
  /\ \E wide \in WideDraws(returned) :
       /\ call' = Append(call, wide)
       /\ terrain_grid' = draw_stream(terrain_grid, returned, wide)
  /\ pc' = "returned"
  /\ UNCHANGED <<arguments, returned, grid_before, entities, error, reserved, locals>>

NextStream == WalkStep \/ DrawStream

SpecStream == InitStream /\ [][NextStream]_vars

\* the loops of generate_stream are not suspended for ever
FairStream == SpecStream /\ WF_vars(NextStream)

InStream == call # <<>> /\ call[1] = "generate_stream"

\* the positions recorded lie one cell inside the border, the start apart,
\* and are at most 2 * width
WalkBounded ==
  InStream =>
    /\ Len(returned) <= 2 * width
    /\ \A k \in 2 .. Len(returned) :
         /\ 1 <= returned[k][1] /\ returned[k][1] <= width - 2
         /\ 1 <= returned[k][2] /\ returned[k][2] <= height - 2

\* no position but the last is within Chebyshev distance 1 of the target
StopsWhenClose ==
  InStream =>
    \A k \in 1 .. Len(returned) - 1 : ~CloseEnough(returned[k], call[4], call[5])

\* no position but the start and the last is within Chebyshev distance 1 of
\* the target, and the walk goes on from the start unless the start is the
\* target itself
StopsWhenCloseAfterStep ==
  InStream =>
    /\ \A k \in 2 .. Len(returned) - 1 : ~CloseEnough(returned[k], call[4], call[5])
    /\ pc # "walk" =>
         \/ returned = << <<call[2], call[3]>> >> /\ returned[1] = <<call[4], call[5]>>
         \/ Len(returned) >= 2 /\ CloseEnough(returned[Len(returned)], call[4], call[5])
         \/ Len(returned) = 2 * width

\* C25 as stated: generate_stream terminates, the walk records at most
\* 2 * width positions, every position after the start lies in
\* 1 <= x <= width - 2, 1 <= y <= height - 2, and the walk stops as soon as
\* it is within Chebyshev distance 1 of the target
C25_StopsAsSoonAsClose ==
  /\ <>(pc = "returned")
  /\ [](WalkBounded /\ StopsWhenClose)

\* C25, amended: the same, but the distance to the target is tested only
\* after a step: a walk whose start is within Chebyshev distance 1 of the
\* target and is not the target takes at least one step, and stops after
\* the first step that ends within that distance
C25_StopsAfterStepClose ==
  /\ <>(pc = "returned")
  /\ [](WalkBounded /\ StopsWhenCloseAfterStep)

\* a walk whose start is within distance 1 of the target, which moved away
\* and ran to 2 * width positions
C25_Witness ==
  /\ Returned("generate_stream")
  /\ CloseEnough(returned[1], call[4], call[5])
  /\ Len(returned) = 2 * width
  /\ ~CloseEnough(returned[Len(returned)], call[4], call[5])


\* the cells the widening of the k-th position has set to water
Widened(k) ==
  {c \in Neighbours(returned[k]) :
     /\ InBounds(c[1], c[2])
     /\ <<c[1] - returned[k][1], c[2] - returned[k][2]>> \in call[6][k]}

\* C26 as stated: after generate_stream has drawn the stream every visited
\* cell is water, and the widening of one visited cell has marked at most
\* one of its four 4-neighbours
C26_OneNeighbourWidened ==
  Returned("generate_stream") =>
    \A k \in 1 .. Len(returned) :
       /\ terrain_grid[returned[k][2] + 1][returned[k][1] + 1] = "water"
       /\ \A c \in Widened(k) : terrain_grid[c[2] + 1][c[1] + 1] = "water"
       /\ Cardinality(Widened(k)) <= 1


(***************************************************************************)
(* Properties of generate_village                                          *)
(***************************************************************************)
\* a step of the town square, the building loop or the vegetation
AfterRoads == environment = "village" /\ pc \in {"square", "buildings", "vegetation"}

\* the step leaves every dirt cell dirt
RoadsKept ==
  AfterRoads =>
    \A c \in Cells(width, height) : TileAt(c) = "dirt" => terrain_grid'[c[2] + 1][c[1] + 1] = "dirt"

\* every cell within one cell of a cell the building loop has changed was
\* in bounds, not dirt and outside the town square
BuildingsClear ==
  (environment = "village" /\ pc = "buildings") =>
    \A c \in Cells(width, height) :
       terrain_grid'[c[2] + 1][c[1] + 1] # TileAt(c) =>
         \A n \in (c[1] - 1 .. c[1] + 1) \X (c[2] - 1 .. c[2] + 1) :
            /\ InBounds(n[1], n[2])
            /\ TileAt(n) # "dirt"
            /\ n \notin SquareCells(square_size)

\* C27: in generate_village the town square, the buildings and the
\* vegetation leave every dirt cell dirt, and a building is created only
\* where its footprint with a 1-cell margin holds no dirt cell and no cell
\* of the town square
C27_RoadsKept == [][RoadsKept /\ BuildingsClear]_vars

\* a village with roads, a building and grass, before the border walls
C27_Witness ==
  /\ environment = "village" /\ pc = step_after("generated")
  /\ \E c \in Interior(width, height) : TileAt(c) = "wall"
  /\ \E c \in Interior(width, height) : TileAt(c) = "dirt"
  /\ \E c \in Interior(width, height) : TileAt(c) = "grass"


(***************************************************************************)
(* The world of levels and its two systems (src/roguelike/world.py,        *)
(* src/roguelike/level.py, src/roguelike/systems.py).  An entity is, as in *)
(* Level.entities above, <<name, x, y>>: its template name and the x and y *)
(* of its PositionComponent.  A level is a record of width, height and     *)
(* entities.                                                               *)
(***************************************************************************)
\* entity.has_component(component_type)
has_component(entity, component_type) ==
  IF component_type = "PlayerComponent" THEN entity[1] = "player"
  ELSE IF component_type = "StairComponent" THEN entity[1] \in {"upstairs", "downstairs"}
  ELSE IF component_type = "BlocksMovementComponent" THEN entity[1] \in {"wall", "water", "trees"}
  ELSE component_type = "PositionComponent"

\* entity.get_component(StairComponent).direction
direction_of(entity) == IF entity[1] = "upstairs" THEN "up" ELSE "down"

\* Level.get_entities_with_component
get_entities_with_component(level, component_type) ==
  SelectSeq(level.entities, LAMBDA e : has_component(e, component_type))

\* a removal that leaves the list as it is
remove_entity_kept(level, entity) == level

\* Level.remove_entity: list.remove takes out the first occurrence
remove_entity(level, entity) ==
  IF \E k \in 1 .. Len(level.entities) : level.entities[k] = entity
  THEN LET k == CHOOSE i \in 1 .. Len(level.entities) :
                  /\ level.entities[i] = entity
                  /\ \A j \in 1 .. i - 1 : level.entities[j] # entity
       IN  [level EXCEPT !.entities =
              [i \in 1 .. Len(level.entities) - 1 |->
                 IF i < k THEN level.entities[i] ELSE level.entities[i + 1]]]
  ELSE level

\* World.get_active_level: the level in a one-element sequence, or None
get_active_level(ls, index) ==
  IF 0 <= index /\ index < Len(ls) THEN <<ls[index + 1]>> ELSE <<>>

\* a transition that looks for a stair of the direction travelled
execute_transition_same_direction(ls, current_index, player, direction) ==
  LET target_index == IF direction = "down" THEN current_index + 1 ELSE current_index - 1
  IN  IF ~(0 <= target_index /\ target_index < Len(ls)) THEN <<ls, current_index>>
      ELSE LET removed == [ls EXCEPT ![current_index + 1] = remove_entity(@, player)]
               found == SelectSeq(get_entities_with_component(removed[target_index + 1],
                                                              "StairComponent"),
                                  LAMBDA e : direction_of(e) = direction)
               moved == IF found = <<>> THEN player
                        ELSE <<player[1], found[1][2], found[1][3]>>
           IN  <<[removed EXCEPT ![target_index + 1].entities = Append(@, moved)],
                 target_index>>

\* LevelTransitionSystem._execute_transition: <<levels, active_level_index>>
\* afterwards
execute_transition(ls, current_index, player, direction) ==
  LET target_index == IF direction = "down" THEN current_index + 1 ELSE current_index - 1
      opposite_direction == IF direction = "down" THEN "up" ELSE "down"
  IN  IF ~(0 <= target_index /\ target_index < Len(ls)) THEN <<ls, current_index>>
      ELSE LET removed == [ls EXCEPT ![current_index + 1] = remove_entity(@, player)]
               found == SelectSeq(get_entities_with_component(removed[target_index + 1],
                                                              "StairComponent"),
                                  LAMBDA e : direction_of(e) = opposite_direction)
               moved == IF found = <<>> THEN player
                        ELSE <<player[1], found[1][2], found[1][3]>>
           IN  <<[removed EXCEPT ![target_index + 1].entities = Append(@, moved)],
                 target_index>>

\* an update that takes any stair under the player, whatever its direction
transition_update_any_stair(ls, index, request) ==
  IF request = "None" \/ get_active_level(ls, index) = <<>> THEN <<ls, index>>
  ELSE LET level == get_active_level(ls, index)[1]
           player_entities == get_entities_with_component(level, "PlayerComponent")
       IN  IF player_entities = <<>> THEN <<ls, index>>
           ELSE LET player == player_entities[1]
                    on_stairs == SelectSeq(get_entities_with_component(level, "StairComponent"),
                                   LAMBDA e : e[2] = player[2] /\ e[3] = player[3])
                IN  IF on_stairs = <<>> THEN <<ls, index>>
                    ELSE execute_transition(ls, index, player, request)

\* LevelTransitionSystem.update without its last statement:
\* <<levels, active_level_index>> afterwards.  The loop stops at the first
\* stair under the player whose direction is the one requested
transition_update(ls, index, request) ==
  IF request = "None" \/ get_active_level(ls, index) = <<>> THEN <<ls, index>>
  ELSE LET level == get_active_level(ls, index)[1]
           player_entities == get_entities_with_component(level, "PlayerComponent")
       IN  IF player_entities = <<>> THEN <<ls, index>>
           ELSE LET player == player_entities[1]
                    on_stairs == SelectSeq(get_entities_with_component(level, "StairComponent"),
                                   LAMBDA e : /\ e[2] = player[2] /\ e[3] = player[3]
                                              /\ request = direction_of(e))
                IN  IF on_stairs = <<>> THEN <<ls, index>>
                    ELSE execute_transition(ls, index, player, direction_of(on_stairs[1]))


\* the key events explored: None, "<" with and without shift, the eight
\* movement keys and a key that moves nothing
Events ==
  {<<>>} \cup {<<[sym |-> k, shift |-> b]>> :
                 k \in {"<", "h", "j", "k", "l", "y", "u", "b", "n", "x"}, b \in BOOLEAN}

\* "dx, dy = 0, 0" and the chain of key tests
KeyStep(key_char) ==
  IF key_char = "h" THEN <<-1, 0>>
  ELSE IF key_char = "j" THEN <<0, 1>>
  ELSE IF key_char = "k" THEN <<0, -1>>
  ELSE IF key_char = "l" THEN <<1, 0>>
  ELSE IF key_char = "y" THEN <<-1, -1>>
  ELSE IF key_char = "u" THEN <<1, -1>>
  ELSE IF key_char = "b" THEN <<-1, 1>>
  ELSE IF key_char = "n" THEN <<1, 1>>
  ELSE <<0, 0>>

\* the place of the first entity of a list that has the component
FirstWith(es, component_type) ==
  CHOOSE k \in 1 .. Len(es) :
    /\ has_component(es[k], component_type)
    /\ \A j \in 1 .. k - 1 : ~has_component(es[j], component_type)

\* InputSystem.update: <<levels, transition_request>> afterwards; event is
\* None (the empty sequence) or a one-element sequence
input_update(ls, index, request, event) ==
  IF event = <<>> \/ get_active_level(ls, index) = <<>> THEN <<ls, request>>
  ELSE LET level == get_active_level(ls, index)[1]
           player_entities == get_entities_with_component(level, "PlayerComponent")
       IN  IF player_entities = <<>> THEN <<ls, request>>
           ELSE IF event[1].sym = "<"
           THEN <<ls, IF event[1].shift THEN "down" ELSE "up">>
           ELSE LET position == player_entities[1]
                    d == KeyStep(event[1].sym)
                    new_x == position[2] + d[1]
                    new_y == position[3] + d[2]
                    blocked ==
                      \E k \in 1 .. Len(level.entities) :
                         /\ has_component(level.entities[k], "BlocksMovementComponent")
                         /\ level.entities[k][2] = new_x /\ level.entities[k][3] = new_y
                IN  IF ~(0 <= new_x /\ new_x < level.width /\ 0 <= new_y /\ new_y < level.height)
                       \/ blocked
                    THEN <<ls, request>>
                    ELSE <<[ls EXCEPT ![index + 1].entities[FirstWith(level.entities, "PlayerComponent")] =
                              <<position[1], new_x, new_y>>],
                           request>>

\* the entities a generated level can hold besides the player
Fixtures ==
  {<<name, c[1], c[2]>> : name \in {"upstairs", "downstairs", "wall"},
                          c \in Cells(LevelWidth, LevelHeight)}

\* Level(width, height) with a list of entities
Level(es) == [width |-> LevelWidth, height |-> LevelHeight, entities |-> es]

\* a world of up to MaxLevels levels as add_level builds it; the first
\* level is the active one and holds the player, or no level does
InitWorld ==
  /\ \E n \in 0 .. MaxLevels :
       \E ls \in [1 .. n -> {Level(es) : es \in ListsOf(Fixtures, MaxLevelEntities)}] :
          \/ levels = ls
          \/ /\ n > 0
             /\ \E c \in Cells(LevelWidth, LevelHeight) :
                  levels = [ls EXCEPT ![1].entities = Append(@, <<"player", c[1], c[2]>>)]
  /\ active_level_index = 0
  /\ transition_request = "None"
  /\ width = LevelWidth /\ height = LevelHeight
  /\ terrain_grid = NewGrid(LevelWidth, LevelHeight)
  /\ player_x = 1 /\ player_y = 1
  /\ has_upstairs = FALSE /\ has_downstairs = FALSE /\ create_player = FALSE
  /\ entities = <<>>
  /\ reserved = {}
  /\ num_regions = 0
  /\ environment = "dungeon" /\ algorithm = "rooms_corridors"
  /\ rooms = <<>> /\ num_rooms_target = 0 /\ attempts = 0
  /\ root = <<>>
  /\ num_iterations = 0
  /\ square_size = 0
  /\ call = <<>> /\ returned = <<>> /\ grid_before = <<>>
  /\ pc = "world"
  /\ error = "none"

\* world.handle_input(event): InputSystem.update(world, event)
HandleInput ==
  /\ pc = "world"
  /\ \E event \in Events :
       LET r == input_update(levels, active_level_index, transition_request, event)
       IN  levels' = r[1] /\ transition_request' = r[2]
  /\ call' = <<"InputSystem.update">>
  /\ UNCHANGED <<generate_arguments, active_level_index, returned, grid_before,
                 terrain_grid, entities, pc, error, reserved, locals>>

\* LevelTransitionSystem.update(world)
TransitionUpdate ==
  /\ pc = "world"
  /\ LET r == transition_update(levels, active_level_index, transition_request)
     IN  levels' = r[1] /\ active_level_index' = r[2]
  /\ transition_request' = "None"
  /\ call' = <<"LevelTransitionSystem.update">>
  /\ UNCHANGED <<generate_arguments, returned, grid_before,
                 terrain_grid, entities, pc, error, reserved, locals>>

NextWorld == HandleInput \/ TransitionUpdate

SpecWorld == InitWorld /\ [][NextWorld]_vars


\* the player entities of a level
PlayersIn(level) == get_entities_with_component(level, "PlayerComponent")

\* the stairs of a direction in a level, in the order of its entity list
StairsIn(level, direction) ==
  SelectSeq(level.entities,
            LAMBDA e : has_component(e, "StairComponent") /\ direction_of(e) = direction)

Opposite(direction) == IF direction = "down" THEN "up" ELSE "down"

\* the level a request leads to
TargetIndex(request) ==
  IF request = "down" THEN active_level_index + 1 ELSE active_level_index - 1

\* a transition is requested, the player of the active level stands on a
\* stair of the requested direction and the target level exists
TransitionDue ==
  /\ transition_request # "None"
  /\ 0 <= active_level_index /\ active_level_index < Len(levels)
  /\ PlayersIn(levels[active_level_index + 1]) # <<>>
  /\ LET player == PlayersIn(levels[active_level_index + 1])[1]
         stairs == StairsIn(levels[active_level_index + 1], transition_request)
     IN  \E k \in 1 .. Len(stairs) : stairs[k][2] = player[2] /\ stairs[k][3] = player[3]
  /\ 0 <= TargetIndex(transition_request) /\ TargetIndex(transition_request) < Len(levels)

TransitionStep == pc = "world" /\ call' = <<"LevelTransitionSystem.update">>

\* an update that is due moves to the target level; any other leaves the
\* active level and every entity list as they are; the request ends as None
TransitionOnlyWhenDue ==
  TransitionStep =>
    /\ transition_request' = "None"
    /\ IF TransitionDue
       THEN active_level_index' = TargetIndex(transition_request)
       ELSE UNCHANGED <<active_level_index, levels>>

\* C28: LevelTransitionSystem.update changes the active level only when a
\* transition is requested, the player stands on a stair of the requested
\* direction and the target index is an existing level; otherwise the
\* active level, the player's position and every level's entity list are
\* unchanged; transition_request is None afterwards in every case
C28_TransitionOnlyWhenDue == [][TransitionOnlyWhenDue]_vars

\* the second level is active, which only an executed transition brings
\* about, and the request is cleared
C28_Witness ==
  /\ pc = "world" /\ call = <<"LevelTransitionSystem.update">>
  /\ active_level_index = 1
  /\ PlayersIn(levels[2]) # <<>> /\ PlayersIn(levels[1]) = <<>>
  /\ transition_request = "None"

\* a step that changes the active level: an executed transition
Executed == pc = "world" /\ active_level_index' # active_level_index

\* the direction of an executed transition
Travelled == IF active_level_index' > active_level_index THEN "down" ELSE "up"

\* the player after and before the transition
PlayerAfter == PlayersIn(levels'[active_level_index' + 1])[Len(PlayersIn(levels'[active_level_index' + 1]))]

PlayerBefore == PlayersIn(levels[active_level_index + 1])[1]

\* the player stands on a stair of the opposite direction in the target
OnOppositeStair ==
  Executed =>
    \E e \in SeqToSet(StairsIn(levels'[active_level_index' + 1], Opposite(Travelled))) :
       PlayerAfter[2] = e[2] /\ PlayerAfter[3] = e[3]

\* the player stands on the first stair of the opposite direction in the
\* target's entity list, or where it stood when the target has none
OnFirstOppositeStairIfAny ==
  Executed =>
    LET stairs == StairsIn(levels'[active_level_index' + 1], Opposite(Travelled))
    IN  IF stairs = <<>>
        THEN PlayerAfter[2] = PlayerBefore[2] /\ PlayerAfter[3] = PlayerBefore[3]
        ELSE PlayerAfter[2] = stairs[1][2] /\ PlayerAfter[3] = stairs[1][3]

\* C29 as stated: after every executed level transition the player's
\* position is the position of a stair of the opposite direction in the
\* target level
C29_OnOppositeStair == [][OnOppositeStair]_vars

\* C29, amended: after an executed level transition the player's position
\* is that of the first stair of the opposite direction in the target
\* level's entity list if the target level has one, and is unchanged if it
\* has none
C29_OnFirstOppositeStairIfAny == [][OnFirstOppositeStairIfAny]_vars

\* the player has gone down to a second level with two upstairs and stands
\* on the first, not on the second
C29_Witness ==
  /\ pc = "world" /\ call = <<"LevelTransitionSystem.update">>
  /\ active_level_index = 1
  /\ Len(StairsIn(levels[2], "up")) = 2
  /\ PlayersIn(levels[2]) # <<>>
  /\ LET player == PlayersIn(levels[2])[1]
         stairs == StairsIn(levels[2], "up")
     IN  /\ player[2] = stairs[1][2] /\ player[3] = stairs[1][3]
         /\ player[2] # stairs[2][2] \/ player[3] # stairs[2][3]

\* the number of player entities in the levels from the k-th on
RECURSIVE PlayerCount(_)
PlayerCount(k) ==
  IF k > Len(levels) THEN 0 ELSE Len(PlayersIn(levels[k])) + PlayerCount(k + 1)

\* C30: in a world started with its single player entity in the active
\* level, after any sequence of key events and LevelTransitionSystem.update
\* calls the player is in exactly one level's entity list, exactly once,
\* that level is the active one, and active_level_index is within
\* 0 .. len(levels) - 1
C30_PlayerInActiveLevel ==
  (pc = "world" /\ PlayerCount(1) > 0) =>
    /\ 0 <= active_level_index /\ active_level_index < Len(levels)
    /\ PlayerCount(1) = 1
    /\ Len(PlayersIn(levels[active_level_index + 1])) = 1

\* the player has gone down to the second level, arrived on its upstairs
\* and stepped off it
C30_Witness ==
  /\ pc = "world" /\ call = <<"InputSystem.update">>
  /\ Len(levels) = 2 /\ active_level_index = 1
  /\ PlayersIn(levels[2]) # <<>>
  /\ StairsIn(levels[2], "up") # <<>>
  /\ LET player == PlayersIn(levels[2])[1]
     IN  \A k \in 1 .. Len(levels[2].entities) :
            has_component(levels[2].entities[k], "StairComponent") =>
              levels[2].entities[k][2] # player[2] \/ levels[2].entities[k][3] # player[3]

====
